---- MODULE Spec2Model ----
(***************************************************************************)
(* A model of the ts-router component runtime:                            *)
(*   - the feature plan builder (components/feature/featureSpecs.ts),     *)
(*   - the Layout lifecycle (components/Layout.ts) with its feature       *)
(*     registry (components/feature/featureRegistry.ts) and the           *)
(*     ChildrenFeature (components/feature/ChildrenFeature.ts).           *)
(* PlanSpec explores buildFeaturePlan over bounded inputs; Spec explores  *)
(* the lifecycle as a run-to-completion interpreter of the async methods. *)
(***************************************************************************)
EXTENDS Integers, Sequences, FiniteSets, TLC

VARIABLES
    featureName,    \* static featureName of every feature constructor
    dependencies,   \* static dependencies of every feature constructor
    specs,          \* the specification list handed to buildFeaturePlan
    planResult,     \* outcome of buildFeaturePlan: status, returned plan, visited specs
    plugins,        \* features installed on the parent P, in registry order
    renders,        \* what P's renderStructure returns, one of RenderChoices
    root,           \* Layout.root per instance: 0 unset, else the element's identity
    rootNode,       \* what the root is: "none", "element", or the "host" of a composition
    mounted,        \* Layout._mounted per instance
    parentNode,     \* node the root element is attached to, "none" when detached
    attached,       \* identity of the element the last append put into the DOM
    cleanups,       \* Layout.cleanups per instance: the registered cleanups, in order
    listeners,      \* Layout.listeners per instance: number of unsubscribers held
    children,       \* ChildrenFeature.children of P, in insertion order
    pending,        \* ChildrenFeature.pending of P: children awaiting their mount
    frames,         \* every activation of an async function, in call order
    stack,          \* activations running synchronously, innermost last
    mq,             \* the microtask queue: activations to resume, in order
    count,          \* how often each hook or step ran, per instance
    calls,          \* number of calls the environment has made
    addedBy,        \* per child: the method that handed it to the children feature
    detached,       \* children handed to detach
    slotRoot,       \* SlotsFeature.root is set (onRootCreated has run)
    slotMap,        \* SlotsFeature.slotMap: the names of the discovered slots
    slotPending,    \* SlotsFeature.pending: <<name, items>> pairs in insertion order
    flushing,       \* SlotsFeature.flushing
    region,         \* per slot name: the nodes between its markers, in order
    submitted,      \* per slot name: contents handed to setSlot while undiscovered
    store,          \* FEATURE_STORE: per host its bucket, <<key, feature>> entries in order
    coreFeatures,   \* CoreLayout._features per instance, entries in insertion order
    onInits,        \* per host and feature object: how often onInit(host) was invoked
    regOutcome,     \* the last registration call and whether it returned or threw
    attaches,       \* number of registration calls made
    classes,        \* the declared classes: parent, own specification list, declaration
    collected,      \* the last collectFeatureSpecs call: the class and the list returned
    effectReads,    \* per effect: the signals its fn reads
    effectStops,    \* per effect: the effect whose disposer its fn calls, or "none"
    stopsFirst,     \* fn calls the disposer before (TRUE) or after its reads
    value,          \* SignalImpl._value per signal
    subscribers,    \* SignalImpl.subscribers per signal, in insertion order
    ctxDeps,        \* EffectCtx.deps per effect
    created,        \* effects whose effect(fn) call has returned its disposer
    disposed,       \* effects whose disposer has been called
    lateRuns,       \* per effect: runs of fn started after its disposer was called
    notifyQueue,    \* set(): the rest of the subscriber snapshot being notified
    writes,         \* number of set() calls made
    routeMiddlewares, \* per route: opts.middlewares, the guards in declared order
    navs,           \* every navigate() activation, in call order
    navQueue,       \* navigations whose awaited promise has settled, in order
    navToken,       \* Router.navToken
    history,        \* the pushState / replaceState calls made, in order
    currentPage,    \* Router.currentPage: a page id, 0 for null
    pages,          \* every page constructed: its navigation, mountTo and destroy calls
    shown,          \* what the container shows: "none", "page" or "error"
    offTitleEffect, \* the page whose title effect the router holds, or 0
    titleEffects,   \* the pages whose title effect is subscribed
    inContainer,    \* the pages whose root is a child of the container
    installed,      \* the features in the bucket of host H, in installation order
    rendered,       \* what H's renderStructure returns, one of RenderChoices
    rootBuild,      \* the ensureRoot run of H: its afterRender calls and its outcome
    readyTask,      \* the microtask the constructor of H queued: "queued" or "fired"
    hostDestroys,   \* number of destroy() calls made on H
    readyHooks,     \* onFeaturesReady invocations on the features of H
    lateReady,      \* those of them made after a destroy() call on H
    useSpecs,       \* the names of the features a class declares, in order ("" = none)
    decorated,      \* the class is wrapped by UseFeatures (else @Feature fields)
    ctorPc,         \* position of new W(): "new", "specs", "done" or "threw"
    ctorIdx,        \* the specification the constructor is at
    hostBucket,     \* the bucket of the instance under construction, in order
    createdCalls,   \* invocations of the created hook
    initCalls,      \* per feature: invocations of onInit
    readyQueue,     \* the queued features-ready microtasks, by who queued them
    readyGot,       \* per feature: invocations of onFeaturesReady
    state,          \* Layout.state: per key its value, NoValue when the key is absent
    stMounted,      \* Layout._mounted of the component whose state is set
    stPlugins,      \* number of features installed on it (each implements the update hooks)
    lastUpdate,     \* the last setState call: its argument, the bag before, the hooks it ran
    setCalls,       \* number of setState calls made
    disposers,      \* DisposableScope.disposers, in order
    hostCleanups,   \* Layout.cleanups of a component given the same registrations
    throwers,       \* the cleanups that throw (or reject) when invoked
    nests,          \* the cleanup that registers the cleanup "dx" when invoked, or "none"
    registered,     \* the cleanups handed to add / registerCleanup by the owner
    addOrder,       \* every cleanup added to the scope, in the order of the add calls
    sFlush,         \* the flush() activations of the scope: status, disposer awaited
    hFlush,         \* the flushes of Layout.destroy: status, cleanup awaited, spliced rest
    sLog,           \* invocations made by the scope's flushes: id, flush, settled
    hLog,           \* invocations made by the Layout flushes: id, flush, settled
    hookReturns,    \* per cleanup-returning hook of the plugin: what it returns
    cleanupPc,      \* position of the host in mountTo() and destroy()
    heldCleanups,   \* Layout.cleanups of the host: the hooks whose callback is held
    ranCleanups,    \* per hook: how often the callback it delivered was invoked
    resolvedHooks   \* hooks whose returned promise has resolved to the callback

planVars == <<featureName, dependencies, specs, planResult>>
layoutVars == <<plugins, renders, root, rootNode, mounted, parentNode, attached, cleanups, listeners,
                children, pending, frames, stack, mq, count, calls, addedBy, detached>>
slotVars == <<slotRoot, slotMap, slotPending, flushing, region, submitted>>
layoutVarsButFrames == <<plugins, renders, root, rootNode, mounted, parentNode, attached, cleanups,
                         listeners, children, pending, count, calls, addedBy, detached>>
regVars == <<store, coreFeatures, onInits, regOutcome, attaches>>
chainVars == <<classes, collected>>
reactVars == <<effectReads, effectStops, stopsFirst, value, subscribers, ctxDeps, created,
               disposed, lateRuns, notifyQueue, writes>>
titleVars == <<offTitleEffect, titleEffects>>
routerVars == <<routeMiddlewares, navs, navQueue, navToken, history, currentPage, pages, shown,
                titleVars, inContainer>>
hostVars == <<installed, rendered, rootBuild, readyTask, hostDestroys, readyHooks, lateReady>>
ctorVars == <<useSpecs, decorated, ctorPc, ctorIdx, hostBucket, createdCalls, initCalls,
              readyQueue, readyGot>>
stateVars == <<state, stMounted, stPlugins, lastUpdate, setCalls>>
scopeVars == <<disposers, hostCleanups, throwers, nests, registered, addOrder, sFlush, hFlush,
               sLog, hLog>>
cleanupVars == <<hookReturns, cleanupPc, heldCleanups, ranCleanups, resolvedHooks>>
laterVars == <<ctorVars, stateVars, scopeVars, cleanupVars>>
extraVars == <<chainVars, reactVars, routerVars, hostVars, laterVars>>
vars == <<planVars, layoutVars, slotVars, regVars, extraVars>>

(***************************************************************************)
(* Bounds of the exploration.                                             *)
(***************************************************************************)
MaxSpecs == 2       \* longest specification list
MaxDeps == 1        \* longest static dependencies list
StackLimit == 13    \* call depth at which the engine raises RangeError
MaxCalls == 3       \* calls the environment makes on the parent and its plugin
MaxListeners == 1   \* DOM listeners an instance holds at a time
MaxSlotCalls == 4   \* calls the environment makes on the slots feature
MaxAttaches == 3    \* registration calls made on the feature registries
MaxNavs == 2        \* navigate() activations, redirects included
MaxWrites == 2      \* set() calls made on the signals
MaxClasses == 2     \* classes declared below Layout

(***************************************************************************)
(* Feature plan builder: featureSpecs.ts                                  *)
(***************************************************************************)
Ctors == {"K1", "K2", "K3"}
Undef == "undefined"
Names == {"x", "y", "z"}

\* Sequences over S of length 0..n
RECURSIVE SeqsUpTo(_, _)
SeqsUpTo(S, n) ==
    IF n = 0 THEN {<<>>}
    ELSE LET shorter == SeqsUpTo(S, n - 1)
         IN shorter \cup {Append(s, x) : s \in {t \in shorter : Len(t) = n - 1}, x \in S}

\* Constructors' canonical names: K1 named, K2 possibly unnamed, K3 possibly
\* sharing K1's name.
FeatureNameChoices ==
    {f \in [Ctors -> Names \cup {Undef}] :
        /\ f["K1"] = "x"
        /\ f["K2"] \in {"y", Undef}
        /\ f["K3"] \in {"z", "x"}}

\* Static dependency lists; K3 is a leaf.
DependencyChoices ==
    {d \in [Ctors -> SeqsUpTo(Ctors, MaxDeps)] : d["K3"] = <<>>}

\* A FeatureSpec: a bare constructor (name undefined) or {name, feature};
\* the override may be the empty string.
SpecChoices == [name : {Undef, "y", ""}, feature : Ctors]

\* normalizeSpec + name resolution: request.name ?? request.feature.featureName
resolveName(spec) ==
    IF spec.name # Undef THEN spec.name ELSE featureName[spec.feature]

\* plan.get(name): index of the entry keyed name, 0 when absent
planIndex(plan, name) ==
    IF \E i \in 1..Len(plan) : plan[i].name = name
    THEN CHOOSE i \in 1..Len(plan) : plan[i].name = name
    ELSE 0

\* plan.set(name, entry): a Map keeps the position of an existing key
planSet(plan, entry) ==
    LET i == planIndex(plan, entry.name)
    IN IF i = 0 THEN Append(plan, entry) ELSE [plan EXCEPT ![i] = entry]

\* A mutation of mergeExisting: the exposed flag of a repeated request is lost.
mergeExistingKeepFlag(plan, name, expose) == plan

\* if (existing) { if (expose) existing.expose = true; return; }
mergeExisting(plan, name, expose) ==
    IF expose
    THEN [plan EXCEPT ![planIndex(plan, name)].expose = TRUE]
    ELSE plan

RECURSIVE collectDependencies(_, _, _, _, _)
RECURSIVE collectEach(_, _, _, _, _)

\* for (const dep of request.feature.dependencies ?? []) collectDependencies(dep, false, plan)
\* an exception raised by one dependency ends the loop.
collectEach(deps, i, plan, depth, visited) ==
    IF i > Len(deps) THEN [status |-> "ok", plan |-> plan, visited |-> visited]
    ELSE LET r == collectDependencies([name |-> Undef, feature |-> deps[i]], FALSE, plan,
                                      depth, visited)
         IN IF r.status # "ok" THEN r ELSE collectEach(deps, i + 1, r.plan, depth, r.visited)

\* A mutation of missingName: only the empty string counts as missing.
missingNameEmptyOnly(name) == name = ""

\* !name
missingName(name) == name \in {Undef, ""}

\* collectDependencies(spec, expose, plan); depth is the number of nested
\* activations, the call that exceeds StackLimit raises RangeError; visited
\* lists the specifications the activations so far were called with.
collectDependencies(spec, expose, plan, depth, visited) ==
    IF depth > StackLimit THEN [status |-> "overflow", plan |-> plan, visited |-> visited]
    ELSE LET name == resolveName(spec)
             seen == Append(visited, spec)
         IN IF missingName(name) THEN [status |-> "throw", plan |-> plan, visited |-> seen]
            ELSE IF planIndex(plan, name) # 0
            THEN [status |-> "ok", plan |-> mergeExisting(plan, name, expose),
                  visited |-> seen]
            ELSE LET r == collectEach(dependencies[spec.feature], 1, plan, depth + 1, seen)
                 IN IF r.status # "ok" THEN r
                    ELSE [status |-> "ok",
                          plan |-> planSet(r.plan, [name |-> name, ctor |-> spec.feature,
                                                    expose |-> expose]),
                          visited |-> r.visited]

RECURSIVE buildLoop(_, _, _, _)
buildLoop(ss, i, plan, visited) ==
    IF i > Len(ss) THEN [status |-> "ok", plan |-> plan, visited |-> visited]
    ELSE LET r == collectDependencies(ss[i], TRUE, plan, 1, visited)
         IN IF r.status # "ok" THEN r ELSE buildLoop(ss, i + 1, r.plan, r.visited)

\* buildFeaturePlan(specs): the plan, or the exception that ended it
buildFeaturePlan(ss) ==
    LET r == buildLoop(ss, 1, <<>>, <<>>)
    IN IF r.status = "ok" THEN r
       ELSE [status |-> r.status, plan |-> <<>>, visited |-> r.visited]

(***************************************************************************)
(* Layout lifecycle: Layout.ts, featureRegistry.ts, ChildrenFeature.ts.    *)
(* P is a component with installed features; A and B are plain components *)
(* used as its children.  An async method is an activation (frame) that    *)
(* runs until its next await; awaits resume through the microtask queue.   *)
(***************************************************************************)
Layouts == {"P", "A", "B"}
Kids == {"A", "B"}
ComposedChild == "A"    \* the Layout P's renderStructure returns when it composes
HookNames ==
    {"render", "beforeRender", "afterRender", "onRootCreated", "beforeMountRoot",
     "beforeMount", "append", "onMounted", "afterMount", "afterMounted",
     "beforeDestroy", "beforeUnmount", "onDestroy", "afterDestroy", "unmounted",
     "cleanup", "destroy", "registered", "addEvent", "threw"}

\* "probe" implements every hook synchronously; "thenable" implements only
\* afterRender and returns a promise from it
PluginChoices ==
    {<<"children", "probe">>, <<"probe", "children">>, <<"probe">>, <<"children">>,
     <<"children", "thenable">>}
\* what renderStructure returns: an HTMLElement, a Layout, an html string with
\* zero, one or two top-level elements, or a DOM node that is not an element
RenderChoices == {"element", "layout", "html0", "html1", "html2", "text"}

\* FEATURE_STORE.get(host): the bucket's values in insertion order
featuresOf(l) == IF l = "P" THEN plugins ELSE <<>>
hasFeature(l, name) == \E i \in 1..Len(featuresOf(l)) : featuresOf(l)[i] = name

\* forEachFeature over a hook only the probe feature implements (synchronously):
\* the number of hook invocations the broadcast makes
forEachFeature(l) == IF hasFeature(l, "probe") THEN 1 ELSE 0

bump(c, l, h, n) == [c EXCEPT ![l][h] = @ + n]

\* Layout.registerCleanup, lines 146-153: a function is pushed onto the
\* cleanups array (cs); seq numbers the registrations of the instance
registerCleanupFirst(cs, label, seq) == <<[label |-> label, seq |-> seq]>> \o cs

registerCleanup(cs, label, seq) == Append(cs, [label |-> label, seq |-> seq])

\* Set.add on the insertion-ordered children set
setAdd(s, c) == IF \E i \in 1..Len(s) : s[i] = c THEN s ELSE Append(s, c)
setHas(s, c) == \E i \in 1..Len(s) : s[i] = c
setPos(s, c) == CHOOSE i \in 1..Len(s) : s[i] = c
\* A mutation of setDelete: the element stays in the set.
setDeleteKeep(s, c) == s

setDelete(s, c) == [i \in 1..(Len(s) - 1) |-> IF i < setPos(s, c) THEN s[i] ELSE s[i + 1]]
setOf(s) == {s[i] : i \in 1..Len(s)}

\* A mutation of afterRender: the children feature passes a Layout through.
afterRenderPassThrough(feature, node) ==
    IF feature = "thenable" THEN "promise" ELSE node

\* ChildrenFeature.afterRender / a probe's afterRender, on the value passed along
afterRender(feature, node) ==
    IF feature = "children" /\ node = "layout" THEN "host"
    ELSE IF feature = "thenable" THEN "promise"
    ELSE node

\* out && typeof out.then === "function"
isThenable(out) == out = "promise"

\* line 283: if (!f.afterRender) return -- SlotsFeature has no afterRender
hasAfterRender(feature) == feature # "slots"

\* A mutation of nextNode: the value returned by a hook is dropped.
nextNodeKeep(node, out) == node

\* line 290: node = out
nextNode(node, out) == out

\* the afterRender loop of ensureRoot, lines 282-291, from feature i on: a
\* feature without the hook is passed over; the loop stops at the first
\* thenable (the throw of line 287). node is the value after the loop, called
\* lists the hook calls made: the feature's position, its argument, its result
RECURSIVE afterRenderLoop(_, _, _, _)
afterRenderLoop(fs, i, node, called) ==
    IF i > Len(fs) THEN [node |-> node, called |-> called, threw |-> FALSE]
    ELSE IF ~hasAfterRender(fs[i]) THEN afterRenderLoop(fs, i + 1, node, called)
    ELSE LET out == afterRender(fs[i], node)
             log == Append(called, [at |-> i, arg |-> node, out |-> out])
         IN IF isThenable(out) THEN [node |-> out, called |-> log, threw |-> TRUE]
            ELSE afterRenderLoop(fs, i + 1, nextNode(node, out), log)

\* the value the afterRender loop ends with (the thenable when it threw)
afterRenderChain(fs, i, node) ==
    IF isThenable(node) THEN node ELSE afterRenderLoop(fs, i, node, <<>>).node

\* the number of probe afterRender hooks the loop reaches
afterRenderCalls(l, first) ==
    Cardinality({i \in 1..Len(featuresOf(l)) :
        /\ featuresOf(l)[i] = "probe"
        /\ ~isThenable(afterRenderChain(SubSeq(featuresOf(l), 1, i - 1), 1, first))})

\* typeof node === "string", and tpl.content.childElementCount of its parse
isString(node) == node \in {"html0", "html1", "html2"}
childElementCount(node) ==
    CASE node = "html0" -> 0 [] node = "html1" -> 1 [] node = "html2" -> 2

\* lines 293-303: a string is replaced by its only top-level element;
\* "none" when the parse throws
parseHtml(node) ==
    IF ~isString(node) THEN node
    ELSE IF childElementCount(node) # 1 THEN "none" ELSE "element"

\* does the children feature see a Layout in the afterRender chain
composes(l) ==
    \E i \in 1..Len(featuresOf(l)) :
        /\ featuresOf(l)[i] = "children"
        /\ afterRenderChain(SubSeq(featuresOf(l), 1, i - 1), 1,
                            IF l = "P" THEN renders ELSE "element") = "layout"

\* A mutation of isElement: every value passes the instanceof check.
isElementAny(node) == TRUE

\* node instanceof HTMLElement
isElement(node) == node \in {"element", "host"}

\* A mutation of needsRoot: the root is rebuilt on every call.
needsRootAlways(l) == TRUE

\* if (!this.root) this.ensureRoot()
needsRoot(l) == root[l] = 0

\* Layout.ensureRoot(): the state after it ran, ok = FALSE when it threw
ensureRoot(l) ==
    LET first == IF l = "P" THEN renders ELSE "element"
        out == afterRenderChain(featuresOf(l), 1, first)
        node == parseHtml(out)
        c1 == bump(bump(bump(count, l, "beforeRender", forEachFeature(l)),
                        l, "render", 1), l, "afterRender", afterRenderCalls(l, first))
        ok == ~isThenable(out) /\ node # "none" /\ isElement(node)
    IN [ok |-> ok,
        pending |-> IF composes(l) THEN Append(pending, ComposedChild) ELSE pending,
        children |-> IF composes(l) THEN setAdd(children, ComposedChild) ELSE children,
        root |-> IF ok THEN [root EXCEPT ![l] = c1[l]["render"]] ELSE root,
        node |-> IF ok THEN [rootNode EXCEPT ![l] = node] ELSE rootNode,
        count |-> IF ok THEN bump(c1, l, "onRootCreated", forEachFeature(l)) ELSE c1]

\* ---- activations -------------------------------------------------------
\* Frame ids start at 1; 0 in parent, callee and awaiting stands for none
\* (a call made by the environment has parent 0).

\* fn, self, arg: the method, its receiver and its argument; pc: the source
\* line it stands at; idx, q, callee: its locals (loop position, the spliced
\* cleanups, the promise of its last call); awaiting: the promise it awaits.
\* note, live, snap, had, solo, took, fired record history: what held when the
\* call was made (had: the cleanups registered then; solo: no mountTo or
\* destroy of the receiver was in flight), the cleanups the activation has
\* spliced (took) and how many feature hooks it has invoked.
lifecycleInFlight(l) ==
    \E f \in 1..Len(frames) :
        /\ frames[f].self = l /\ frames[f].fn \in {"mountTo", "destroy"}
        /\ frames[f].status \notin {"done", "rejected"}

newFrame(fn, self, arg, pc, parent, note, snap) ==
    [fn |-> fn, self |-> self, arg |-> arg, pc |-> pc, status |-> "running",
     parent |-> parent, note |-> note, snap |-> snap,
     live |-> mounted[self] /\ root[self] # 0, had |-> cleanups[self],
     solo |-> ~lifecycleInFlight(self),
     idx |-> 0, q |-> <<>>, took |-> <<>>, callee |-> 0, awaiting |-> 0, fired |-> 0]

destroyCompleted(l) ==
    \E d \in 1..Len(frames) :
        frames[d].fn = "destroy" /\ frames[d].self = l /\ frames[d].status = "done"
destroyedWhileMounted(l) ==
    \E d \in 1..Len(frames) :
        /\ frames[d].fn = "destroy" /\ frames[d].self = l
        /\ frames[d].status = "done" /\ frames[d].live
mountInFlight(l) ==
    \E m \in 1..Len(frames) :
        frames[m].fn = "mountTo" /\ frames[m].self = l /\ frames[m].status # "done"
            /\ frames[m].status # "rejected"

\* a call of l.mountTo(container); note: a destroy() of l had completed before
mountToFrame(l, container, parent) ==
    newFrame("mountTo", l, container, "m174", parent, destroyCompleted(l), {})

\* a call of l.destroy(); note: a destroy() of the mounted l had completed
\* before and l is unmounted with no mountTo in flight; snap: the children
\* the parent owns when the call is made
destroyFrame(l, parent) ==
    newFrame("destroy", l, "none", "d211", parent,
             destroyedWhileMounted(l) /\ ~mounted[l] /\ ~mountInFlight(l),
             IF l = "P" THEN setOf(children) ELSE {})

cur == stack[Len(stack)]
F == frames[cur]
pop == SubSeq(stack, 1, Len(stack) - 1)
running(fn, pc) == stack # <<>> /\ F.fn = fn /\ F.pc = pc

\* continue in the same synchronous run
Goto(fs, pc) ==
    /\ frames' = [fs EXCEPT ![cur].pc = pc]
    /\ UNCHANGED <<stack, mq>>

\* await of a value that is no pending promise: resume one microtask later
Yield(fs, pc) ==
    /\ frames' = [fs EXCEPT ![cur].pc = pc, ![cur].status = "queued"]
    /\ mq' = Append(mq, cur)
    /\ stack' = pop

\* call of an async function: the callee runs now, up to its first await
CallFrame(fs, retpc, frame) ==
    /\ frames' = Append([fs EXCEPT ![cur].pc = retpc, ![cur].callee = Len(frames) + 1], frame)
    /\ stack' = Append(stack, Len(frames) + 1)
    /\ UNCHANGED mq

\* await of the promise the last callee returned
AwaitCallee(pc) ==
    IF frames[F.callee].status \in {"done", "rejected"}
    THEN Yield([frames EXCEPT ![cur].awaiting = F.callee], pc)
    ELSE /\ frames' = [frames EXCEPT ![cur].pc = pc, ![cur].status = "suspended",
                                      ![cur].awaiting = F.callee]
         /\ stack' = pop
         /\ UNCHANGED mq

waitersOf(fs, g) ==
    {w \in 1..Len(fs) : fs[w].status = "suspended" /\ fs[w].awaiting = g}

\* the async function returns (or throws): its promise settles and the
\* activation awaiting it is queued
Return(fs, outcome) ==
    /\ frames' = [i \in 1..Len(fs) |->
                    IF i = cur THEN [fs[i] EXCEPT !.status = outcome]
                    ELSE IF i \in waitersOf(fs, cur) THEN [fs[i] EXCEPT !.status = "queued"]
                    ELSE fs[i]]
    /\ mq' = IF waitersOf(fs, cur) = {} THEN mq
             ELSE Append(mq, CHOOSE w \in waitersOf(fs, cur) : TRUE)
    /\ stack' = pop

\* the event loop takes the next microtask
RunMicrotask ==
    /\ stack = <<>>
    /\ mq # <<>>
    /\ stack' = <<Head(mq)>>
    /\ mq' = Tail(mq)
    /\ frames' = [frames EXCEPT ![Head(mq)].status = "running"]
    /\ UNCHANGED <<planVars, regVars, extraVars, slotVars, listeners, plugins, renders, root, rootNode, mounted, parentNode, attached, cleanups,
                   children, pending, count, calls, addedBy, detached>>

\* ---- Layout.mountTo ------------------------------------------------------
\* lines 174-178: ensureRoot, firstTime, the beforeMountRoot broadcast
MountToStart ==
    /\ running("mountTo", "m174")
    /\ LET l == F.self
           need == needsRoot(l)
           er == ensureRoot(l)
           cnt == IF need THEN er.count ELSE count
           firstTime == ~mounted[l]
       IN /\ root' = IF need THEN er.root ELSE root
          /\ rootNode' = IF need THEN er.node ELSE rootNode
          /\ pending' = IF need THEN er.pending ELSE pending
          /\ children' = IF need THEN er.children ELSE children
          /\ IF need /\ ~er.ok
             THEN count' = cnt /\ Return(frames, "rejected")
             ELSE IF firstTime
             THEN /\ count' = bump(cnt, l, "beforeMountRoot", forEachFeature(l))
                  /\ Yield([frames EXCEPT ![cur].fired = @ + forEachFeature(l)], "m179")
             ELSE count' = cnt /\ Goto(frames, "m182")
    /\ UNCHANGED <<planVars, regVars, extraVars, slotVars, listeners, plugins, renders, mounted, parentNode, attached, cleanups,
                   calls, addedBy, detached>>

\* line 179: await this.beforeMount?.()
MountToBeforeMount ==
    /\ running("mountTo", "m179")
    /\ count' = bump(count, F.self, "beforeMount", 1)
    /\ Yield(frames, "m182")
    /\ UNCHANGED <<planVars, regVars, extraVars, slotVars, listeners, plugins, renders, root, rootNode, mounted, parentNode, attached, cleanups,
                   children, pending, calls, addedBy, detached>>

\* lines 182-183: container.append(this.root); this._mounted = true
MountToAppend ==
    /\ running("mountTo", "m182")
    /\ parentNode' = [parentNode EXCEPT ![F.self] = F.arg]
    /\ attached' = [attached EXCEPT ![F.self] = root[F.self]]
    /\ mounted' = [mounted EXCEPT ![F.self] = TRUE]
    /\ count' = bump(count, F.self, "append", 1)
    /\ Goto([frames EXCEPT ![cur].idx = 1], "m186")
    /\ UNCHANGED <<planVars, regVars, extraVars, slotVars, listeners, plugins, renders, root, rootNode, cleanups, children, pending,
                   calls, addedBy, detached>>

\* lines 186-189: forEachFeature(f => registerCleanup(f.onMounted?.()))
\* ChildrenFeature.onMounted is async: its promise is no function and
\* registerCleanup drops it; the probe returns a cleanup function.
MountToOnMounted ==
    /\ running("mountTo", "m186")
    /\ LET l == F.self
           fs == featuresOf(l)
           i == F.idx
       IN IF i > Len(fs)
          THEN Goto(frames, "m191") /\ UNCHANGED <<count, cleanups>>
          ELSE IF fs[i] = "children"
          THEN /\ CallFrame([frames EXCEPT ![cur].idx = i + 1, ![cur].fired = @ + 1], "m186",
                            newFrame("onMounted", l, "none", "c65", cur, FALSE, {}))
               /\ count' = bump(count, l, "onMounted", 1)
               /\ UNCHANGED cleanups
          ELSE /\ Goto([frames EXCEPT ![cur].idx = i + 1, ![cur].fired = @ + 1], "m186")
               /\ count' = bump(bump(count, l, "onMounted", 1), l, "registered", 1)
               /\ cleanups' = [cleanups EXCEPT ![l] =
                                  registerCleanup(@, "cm", count[l]["registered"] + 1)]
    /\ UNCHANGED <<planVars, regVars, extraVars, slotVars, listeners, plugins, renders, root, rootNode, mounted, parentNode, attached,
                   children, pending, calls, addedBy, detached>>

\* line 191: await this.afterMount?.()
MountToAfterMount ==
    /\ running("mountTo", "m191")
    /\ count' = bump(count, F.self, "afterMount", 1)
    /\ Yield(frames, "m194")
    /\ UNCHANGED <<planVars, regVars, extraVars, slotVars, listeners, plugins, renders, root, rootNode, mounted, parentNode, attached, cleanups,
                   children, pending, calls, addedBy, detached>>

\* lines 194-198: the afterMounted broadcast, then the method returns
MountToAfterMounted ==
    /\ running("mountTo", "m194")
    /\ LET l == F.self
           n == forEachFeature(l)
       IN /\ count' = bump(bump(count, l, "afterMounted", n), l, "registered", n)
          /\ cleanups' = [cleanups EXCEPT ![l] =
                             IF n = 1 THEN registerCleanup(@, "ca", count[l]["registered"] + 1)
                             ELSE @]
          /\ Return([frames EXCEPT ![cur].fired = @ + n], "done")
    /\ UNCHANGED <<planVars, regVars, extraVars, slotVars, listeners, plugins, renders, root, rootNode, mounted, parentNode, attached,
                   children, pending, calls, addedBy, detached>>

\* ---- Layout.destroy ------------------------------------------------------
\* lines 211-214 and 236-238: the beforeDestroy broadcast and the branch
DestroyStart ==
    /\ running("destroy", "d211")
    /\ LET l == F.self
           n == forEachFeature(l)
           c1 == bump(bump(count, l, "destroy", 1), l, "beforeDestroy", n)
           fs == [frames EXCEPT ![cur].fired = @ + n]
       IN IF mounted[l] /\ root[l] # 0
          THEN /\ count' = bump(c1, l, "beforeUnmount", 1)
               /\ Yield([fs EXCEPT ![cur].idx = 1], "d216")
               /\ UNCHANGED cleanups
          ELSE /\ count' = c1
               /\ cleanups' = [cleanups EXCEPT ![l] = <<>>]
               /\ Goto([fs EXCEPT ![cur].q = cleanups[l], ![cur].took = cleanups[l]], "d238")
    /\ UNCHANGED <<planVars, regVars, extraVars, slotVars, listeners, plugins, renders, root, rootNode, mounted, parentNode, attached,
                   children, pending, calls, addedBy, detached>>

\* lines 216-222: forEachFeature(f => registerCleanup(f.onDestroy?.())), then
\* this.cleanups.splice(0)
DestroyOnDestroy ==
    /\ running("destroy", "d216")
    /\ LET l == F.self
           fs == featuresOf(l)
           i == F.idx
       IN IF i > Len(fs)
          THEN /\ Goto([frames EXCEPT ![cur].q = cleanups[l], ![cur].took = cleanups[l]],
                       "d222")
               /\ cleanups' = [cleanups EXCEPT ![l] = <<>>]
               /\ UNCHANGED count
          ELSE IF fs[i] = "children"
          THEN /\ CallFrame([frames EXCEPT ![cur].idx = i + 1, ![cur].fired = @ + 1], "d216",
                            newFrame("onDestroy", l, "none", "c76", cur, FALSE, {}))
               /\ count' = bump(count, l, "onDestroy", 1)
               /\ UNCHANGED cleanups
          ELSE /\ Goto([frames EXCEPT ![cur].idx = i + 1, ![cur].fired = @ + 1], "d216")
               /\ count' = bump(bump(count, l, "onDestroy", 1), l, "registered", 1)
               /\ cleanups' = [cleanups EXCEPT ![l] =
                                  registerCleanup(@, "cd", count[l]["registered"] + 1)]
    /\ UNCHANGED <<planVars, regVars, extraVars, slotVars, listeners, plugins, renders, root, rootNode, mounted, parentNode, attached,
                   children, pending, calls, addedBy, detached>>

flushPcs == {"d222", "d233", "d238"}
flushNext == [d222 |-> "d224", d233 |-> "d235", d238 |-> "d241"]
flushAwait == [d222 |-> "d222a", d233 |-> "d233a", d238 |-> "d238a"]
flushBack == [d222a |-> "d222", d233a |-> "d233", d238a |-> "d238"]

\* lines 222, 233, 238: for (const c of spliced) await c() -- the call of c
DestroyFlush ==
    /\ stack # <<>> /\ F.fn = "destroy" /\ F.pc \in flushPcs
    /\ IF F.q = <<>>
       THEN Goto(frames, flushNext[F.pc])
       ELSE CallFrame([frames EXCEPT ![cur].q = Tail(@)], flushAwait[F.pc],
                      newFrame("cleanup", F.self, Head(F.q), "w149", cur, FALSE, {}))
    /\ UNCHANGED <<planVars, regVars, extraVars, slotVars, listeners, plugins, renders, root, rootNode, mounted, parentNode, attached, cleanups,
                   children, pending, count, calls, addedBy, detached>>

\* lines 222, 233, 238: the await of c()'s promise
DestroyFlushAwait ==
    /\ stack # <<>> /\ F.fn = "destroy" /\ F.pc \in DOMAIN flushBack
    /\ AwaitCallee(flushBack[F.pc])
    /\ UNCHANGED <<planVars, regVars, extraVars, slotVars, listeners, plugins, renders, root, rootNode, mounted, parentNode, attached, cleanups,
                   children, pending, count, calls, addedBy, detached>>

\* lines 224-230: root.remove(), _mounted = false, the afterDestroy broadcast,
\* then this.cleanups.splice(0) of line 233
DestroyDetach ==
    /\ running("destroy", "d224")
    /\ LET l == F.self
           n == forEachFeature(l)
           spliced == IF n = 1
                      THEN registerCleanup(cleanups[l], "cad", count[l]["registered"] + 1)
                      ELSE cleanups[l]
       IN /\ parentNode' = [parentNode EXCEPT ![l] = "none"]
          /\ attached' = [attached EXCEPT ![l] = 0]
          /\ mounted' = [mounted EXCEPT ![l] = FALSE]
          /\ count' = bump(bump(count, l, "afterDestroy", n), l, "registered", n)
          /\ cleanups' = [cleanups EXCEPT ![l] = <<>>]
          /\ Goto([frames EXCEPT ![cur].fired = @ + n, ![cur].q = spliced,
                                 ![cur].took = @ \o spliced], "d233")
    /\ UNCHANGED <<planVars, regVars, extraVars, slotVars, listeners, plugins, renders, root, rootNode, children, pending, calls, addedBy, detached>>

\* line 235: await this.unmounted?.()
DestroyUnmounted ==
    /\ running("destroy", "d235")
    /\ count' = bump(count, F.self, "unmounted", 1)
    /\ Yield(frames, "d241")
    /\ UNCHANGED <<planVars, regVars, extraVars, slotVars, listeners, plugins, renders, root, rootNode, mounted, parentNode, attached, cleanups,
                   children, pending, calls, addedBy, detached>>

\* lines 241-242: this.listeners.forEach((off) => off()); length = 0
offAllKeep(n) == n

offAll(n) == 0

\* lines 241-243: the listeners are released and the method returns
DestroyEnd ==
    /\ running("destroy", "d241")
    /\ listeners' = [listeners EXCEPT ![F.self] = offAll(@)]
    /\ Return(frames, "done")
    /\ UNCHANGED <<planVars, regVars, extraVars, slotVars, plugins, renders, root, rootNode, mounted, parentNode, attached, cleanups,
                   children, pending, count, calls, addedBy, detached>>

\* ---- Layout.registerCleanup's wrapper: async () => { await cleanup(); } ----
CleanupRun ==
    /\ running("cleanup", "w149")
    /\ count' = bump(count, F.self, "cleanup", 1)
    /\ Yield(frames, "w150")
    /\ UNCHANGED <<planVars, regVars, extraVars, slotVars, listeners, plugins, renders, root, rootNode, mounted, parentNode, attached, cleanups,
                   children, pending, calls, addedBy, detached>>

CleanupDone ==
    /\ running("cleanup", "w150")
    /\ Return(frames, "done")
    /\ UNCHANGED <<planVars, regVars, extraVars, slotVars, listeners, plugins, renders, root, rootNode, mounted, parentNode, attached, cleanups,
                   children, pending, count, calls, addedBy, detached>>

\* ---- ChildrenFeature -----------------------------------------------------
\* onMounted, lines 65-67: while (pending.length) { shift; child.mountTo(hostEl)
OnMounted ==
    /\ running("onMounted", "c65")
    /\ IF pending = <<>>
       THEN Return(frames, "done") /\ UNCHANGED pending
       ELSE /\ pending' = Tail(pending)
            /\ CallFrame(frames, "c67", mountToFrame(Head(pending), "host", cur))
    /\ UNCHANGED <<planVars, regVars, extraVars, slotVars, listeners, plugins, renders, root, rootNode, mounted, parentNode, attached, cleanups,
                   children, count, calls, addedBy, detached>>

\* onMounted, line 67: the await of child.mountTo(hostEl)
OnMountedAwait ==
    /\ running("onMounted", "c67")
    /\ AwaitCallee("c65")
    /\ UNCHANGED <<planVars, regVars, extraVars, slotVars, listeners, plugins, renders, root, rootNode, mounted, parentNode, attached, cleanups,
                   children, pending, count, calls, addedBy, detached>>

\* onDestroy, lines 76-79: the pending children are mounted first
OnDestroyPending ==
    /\ running("onDestroy", "c76")
    /\ IF pending = <<>>
       THEN Goto([frames EXCEPT ![cur].idx = 0], "c85") /\ UNCHANGED pending
       ELSE /\ pending' = Tail(pending)
            /\ CallFrame(frames, "c79", mountToFrame(Head(pending), "host", cur))
    /\ UNCHANGED <<planVars, regVars, extraVars, slotVars, listeners, plugins, renders, root, rootNode, mounted, parentNode, attached, cleanups,
                   children, count, calls, addedBy, detached>>

\* onDestroy, line 79: the await inside try/catch
OnDestroyPendingAwait ==
    /\ running("onDestroy", "c79")
    /\ AwaitCallee("c76")
    /\ UNCHANGED <<planVars, regVars, extraVars, slotVars, listeners, plugins, renders, root, rootNode, mounted, parentNode, attached, cleanups,
                   children, pending, count, calls, addedBy, detached>>

\* onDestroy, lines 85-91: for (const c of this.children) c.destroy(), then
\* children.clear(); idx is the number of entries the Set iterator has passed
OnDestroyChildren ==
    /\ running("onDestroy", "c85")
    /\ IF F.idx >= Len(children)
       THEN children' = <<>> /\ Return(frames, "done")
       ELSE /\ CallFrame([frames EXCEPT ![cur].idx = @ + 1], "c87",
                         destroyFrame(children[F.idx + 1], cur))
            /\ UNCHANGED children
    /\ UNCHANGED <<planVars, regVars, extraVars, slotVars, listeners, plugins, renders, root, rootNode, mounted, parentNode, attached, cleanups,
                   pending, count, calls, addedBy, detached>>

\* onDestroy, line 87: the await of c.destroy()
OnDestroyChildrenAwait ==
    /\ running("onDestroy", "c87")
    /\ AwaitCallee("c85")
    /\ UNCHANGED <<planVars, regVars, extraVars, slotVars, listeners, plugins, renders, root, rootNode, mounted, parentNode, attached, cleanups,
                   children, pending, count, calls, addedBy, detached>>

\* attach, line 103: child.mountTo(host)
Attach ==
    /\ running("attach", "c103")
    /\ CallFrame(frames, "c103a", mountToFrame(F.arg, "slot", cur))
    /\ UNCHANGED <<planVars, regVars, extraVars, slotVars, listeners, plugins, renders, root, rootNode, mounted, parentNode, attached, cleanups,
                   children, pending, count, calls, addedBy, detached>>

\* attach, line 103: the await
AttachAwait ==
    /\ running("attach", "c103a")
    /\ AwaitCallee("c104")
    /\ UNCHANGED <<planVars, regVars, extraVars, slotVars, listeners, plugins, renders, root, rootNode, mounted, parentNode, attached, cleanups,
                   children, pending, count, calls, addedBy, detached>>

\* attach, line 104: this.children.add(child)
AttachAdd ==
    /\ running("attach", "c104")
    /\ children' = setAdd(children, F.arg)
    /\ Return(frames, "done")
    /\ UNCHANGED <<planVars, regVars, extraVars, slotVars, listeners, plugins, renders, root, rootNode, mounted, parentNode, attached, cleanups,
                   pending, count, calls, addedBy, detached>>

\* a Set iterator that has passed the deleted entry keeps its place
afterDelete(fs, pos) ==
    [i \in 1..Len(fs) |->
        IF fs[i].fn = "onDestroy" /\ fs[i].pc \in {"c85", "c87"} /\ fs[i].idx >= pos
        THEN [fs[i] EXCEPT !.idx = @ - 1] ELSE fs[i]]

\* detach, lines 111-112: delete, then child.destroy()
Detach ==
    /\ running("detach", "c111")
    /\ IF ~setHas(children, F.arg)
       THEN Return(frames, "done") /\ UNCHANGED children
       ELSE /\ children' = setDelete(children, F.arg)
            /\ CallFrame(afterDelete(frames, setPos(children, F.arg)), "c112a",
                         destroyFrame(F.arg, cur))
    /\ UNCHANGED <<planVars, regVars, extraVars, slotVars, listeners, plugins, renders, root, rootNode, mounted, parentNode, attached, cleanups,
                   pending, count, calls, addedBy, detached>>

\* detach, line 112: the await, and the return
DetachAwait ==
    /\ running("detach", "c112a")
    /\ AwaitCallee("c113")
    /\ UNCHANGED <<planVars, regVars, extraVars, slotVars, listeners, plugins, renders, root, rootNode, mounted, parentNode, attached, cleanups,
                   children, pending, count, calls, addedBy, detached>>

DetachEnd ==
    /\ running("detach", "c113")
    /\ Return(frames, "done")
    /\ UNCHANGED <<planVars, regVars, extraVars, slotVars, listeners, plugins, renders, root, rootNode, mounted, parentNode, attached, cleanups,
                   children, pending, count, calls, addedBy, detached>>

\* ---- the environment: calls made by the code that owns P ------------------
canCall == stack = <<>> /\ calls < MaxCalls
enter(frame) ==
    /\ frames' = Append(frames, frame)
    /\ stack' = <<Len(frames) + 1>>
    /\ calls' = calls + 1
    /\ UNCHANGED mq

\* children the environment may still hand to the children feature: the
\* children are interchangeable, so they are handed out in the order A, B
unusedKids ==
    IF hasFeature("P", "children")
    THEN {c \in Kids : addedBy[c] = "none"} \ (IF renders = "layout" THEN {ComposedChild} ELSE {})
    ELSE {}
freeKids ==
    IF ComposedChild \in unusedKids THEN {ComposedChild} ELSE unusedKids

CallMountTo ==
    /\ canCall
    /\ enter(mountToFrame("P", "container", 0))
    /\ UNCHANGED <<planVars, regVars, extraVars, slotVars, listeners, plugins, renders, root, rootNode, mounted, parentNode, attached, cleanups,
                   children, pending, count, addedBy, detached>>

CallDestroy ==
    /\ canCall
    /\ enter(destroyFrame("P", 0))
    /\ UNCHANGED <<planVars, regVars, extraVars, slotVars, listeners, plugins, renders, root, rootNode, mounted, parentNode, attached, cleanups,
                   children, pending, count, addedBy, detached>>

\* Layout.getElement(), lines 249-252
CallGetElement ==
    /\ canCall
    /\ calls' = calls + 1
    /\ LET need == needsRoot("P")
           er == ensureRoot("P")
       IN /\ root' = IF need THEN er.root ELSE root
          /\ rootNode' = IF need THEN er.node ELSE rootNode
          /\ pending' = IF need THEN er.pending ELSE pending
          /\ children' = IF need THEN er.children ELSE children
          /\ count' = IF ~need THEN count
                      ELSE IF er.ok THEN er.count
                      ELSE bump(er.count, "P", "threw", 1)
    /\ UNCHANGED <<planVars, regVars, extraVars, slotVars, listeners, plugins, renders, mounted, parentNode, attached, cleanups,
                   frames, stack, mq, addedBy, detached>>

CallAttach ==
    /\ canCall
    /\ \E c \in freeKids :
        /\ addedBy' = [addedBy EXCEPT ![c] = "attach"]
        /\ enter(newFrame("attach", "P", c, "c103", 0, FALSE, {}))
    /\ UNCHANGED <<planVars, regVars, extraVars, slotVars, listeners, plugins, renders, root, rootNode, mounted, parentNode, attached, cleanups,
                   children, pending, count, detached>>

\* ChildrenFeature.compose, lines 131-139
CallCompose ==
    /\ canCall
    /\ \E c \in freeKids :
        /\ addedBy' = [addedBy EXCEPT ![c] = "compose"]
        /\ pending' = Append(pending, c)
        /\ children' = setAdd(children, c)
    /\ calls' = calls + 1
    /\ UNCHANGED <<planVars, regVars, extraVars, slotVars, listeners, plugins, renders, root, rootNode, mounted, parentNode, attached, cleanups,
                   frames, stack, mq, count, detached>>

\* ChildrenFeature.register, lines 120-122
CallRegister ==
    /\ canCall
    /\ \E c \in freeKids :
        /\ addedBy' = [addedBy EXCEPT ![c] = "register"]
        /\ children' = setAdd(children, c)
    /\ calls' = calls + 1
    /\ UNCHANGED <<planVars, regVars, extraVars, slotVars, listeners, plugins, renders, root, rootNode, mounted, parentNode, attached, cleanups,
                   pending, frames, stack, mq, count, detached>>

\* Layout.addEvent, lines 348-355, called by the subclass on P
CallAddEvent ==
    /\ canCall
    /\ listeners["P"] < MaxListeners
    /\ calls' = calls + 1
    /\ listeners' = [listeners EXCEPT !["P"] = @ + 1]
    /\ count' = bump(count, "P", "addEvent", 1)
    /\ UNCHANGED <<planVars, regVars, extraVars, slotVars, plugins, renders, root, rootNode, mounted, parentNode, attached, cleanups,
                   children, pending, frames, stack, mq, addedBy, detached>>

CallDetach ==
    /\ canCall
    /\ hasFeature("P", "children")
    /\ \E c \in Kids \ detached :
        /\ detached' = detached \cup {c}
        /\ enter(newFrame("detach", "P", c, "c111", 0, FALSE, {}))
    /\ UNCHANGED <<planVars, regVars, extraVars, slotVars, listeners, plugins, renders, root, rootNode, mounted, parentNode, attached, cleanups,
                   children, pending, count, addedBy>>

\* ---- initial states and specifications -----------------------------------
LayoutIdle ==
    /\ root = [l \in Layouts |-> 0]
    /\ rootNode = [l \in Layouts |-> "none"]
    /\ mounted = [l \in Layouts |-> FALSE]
    /\ parentNode = [l \in Layouts |-> "none"]
    /\ attached = [l \in Layouts |-> 0]
    /\ cleanups = [l \in Layouts |-> <<>>]
    /\ listeners = [l \in Layouts |-> 0]
    /\ children = <<>>
    /\ pending = <<>>
    /\ frames = <<>>
    /\ stack = <<>>
    /\ mq = <<>>
    /\ count = [l \in Layouts |-> [h \in HookNames |-> 0]]
    /\ calls = 0
    /\ addedBy = [c \in Kids |-> "none"]
    /\ detached = {}

PlanIdle ==
    /\ featureName = [c \in Ctors |-> "x"]
    /\ dependencies = [c \in Ctors |-> <<>>]
    /\ specs = <<>>
    /\ planResult = [status |-> "none", plan |-> <<>>, visited |-> <<>>]

(***************************************************************************)
(* SlotsFeature: SlotsFeature.ts.  The host P declares one                *)
(* <template slot="header">; "footer" is a name its markup never declares.*)
(* Contents are two strings and the components A and B.                   *)
(***************************************************************************)
SlotNames == {"header", "footer"}
Templates == {"header"}
Texts == {"Hi", "Bye"}
Contents == Texts \cup Kids

\* pending.get(key) ?? []
itemsOf(pend, key) ==
    IF \E i \in 1..Len(pend) : pend[i].key = key
    THEN pend[CHOOSE i \in 1..Len(pend) : pend[i].key = key].items
    ELSE <<>>

\* pending.set(key, list): a new key goes last, a known key keeps its place
pendingSet(pend, key, list) ==
    IF \E i \in 1..Len(pend) : pend[i].key = key
    THEN [i \in 1..Len(pend) |-> IF pend[i].key = key THEN [key |-> key, items |-> list]
                                  ELSE pend[i]]
    ELSE Append(pend, [key |-> key, items |-> list])

\* setSlot, lines 101-103: list.push(content)
enqueue(pend, key, content) == pendingSet(pend, key, Append(itemsOf(pend, key), content))

\* flush, lines 212-214: back = pending.get(key) ?? []; back.push(...items)
requeue(pend, key, items) == pendingSet(pend, key, itemsOf(pend, key) \o items)

\* a call of setSlot(name, content); note: the slot was discovered then
setSlotFrame(name, content, parent) ==
    newFrame("setSlot", "P", [name |-> name, content |-> content], "s100", parent,
             name \in slotMap, {})
flushFrame == newFrame("flush", "P", "none", "f204", 0, FALSE, {})

\* setSlot, lines 99-131: queue the content, or wrap the template, clear the
\* region and insert a string, or start mounting a component; snap records
\* the components the call removed from the region
SetSlotStart ==
    /\ running("setSlot", "s100")
    /\ LET name == F.arg.name
           content == F.arg.content
       IN IF name \notin slotMap
          THEN /\ slotPending' = enqueue(slotPending, name, content)
               /\ submitted' = [submitted EXCEPT ![name] = Append(@, content)]
               /\ Return(frames, "done")
               /\ UNCHANGED region
          ELSE LET removed == {c \in Kids : \E i \in 1..Len(region[name]) :
                                                  region[name][i] = c}
                   fs == [frames EXCEPT ![cur].snap = removed]
               IN /\ UNCHANGED <<slotPending, submitted>>
                  /\ IF content \in Texts
                     THEN /\ region' = [region EXCEPT ![name] = <<content>>]
                          /\ Return(fs, "done")
                     ELSE /\ region' = [region EXCEPT ![name] = <<>>]
                          /\ IF hasFeature("P", "children")
                             THEN CallFrame(fs, "s123",
                                            newFrame("attach", "P", content, "c103", cur,
                                                     FALSE, {}))
                             ELSE CallFrame(fs, "s123", mountToFrame(content, "frag", cur))
    /\ UNCHANGED <<planVars, regVars, extraVars, layoutVarsButFrames, slotRoot, slotMap, flushing>>

\* setSlot, lines 123 and 127: the await of attach or mountTo
SetSlotAwait ==
    /\ running("setSlot", "s123")
    /\ AwaitCallee("s124")
    /\ UNCHANGED <<planVars, regVars, extraVars, layoutVarsButFrames, slotVars>>

\* setSlot, lines 124 and 128: after.before(frag)
SetSlotInsert ==
    /\ running("setSlot", "s124")
    /\ region' = [region EXCEPT ![F.arg.name] = Append(@, F.arg.content)]
    /\ Return(frames, "done")
    /\ UNCHANGED <<planVars, regVars, extraVars, layoutVarsButFrames, slotRoot, slotMap, slotPending, flushing,
                   submitted>>

\* A mutation of alreadyFlushing: the guard never holds.
alreadyFlushingNever(flag) == FALSE

\* flush, line 204: if (this.flushing) return
alreadyFlushing(flag) == flag

\* flush, lines 204-208: the guard, the snapshot and pending.clear()
FlushStart ==
    /\ running("flush", "f204")
    /\ IF alreadyFlushing(flushing)
       THEN Return(frames, "done") /\ UNCHANGED <<flushing, slotPending>>
       ELSE /\ flushing' = TRUE
            /\ slotPending' = <<>>
            /\ Goto([frames EXCEPT ![cur].q = slotPending], "f210")
    /\ UNCHANGED <<planVars, regVars, extraVars, layoutVarsButFrames, slotRoot, slotMap, region, submitted>>

\* flush, lines 210-223: an undiscovered name goes back to pending; the items
\* of a discovered name are replayed through setSlot one by one
FlushStep ==
    /\ running("flush", "f210")
    /\ IF F.q = <<>>
       THEN /\ flushing' = FALSE
            /\ Return(frames, "done")
            /\ UNCHANGED slotPending
       ELSE LET key == Head(F.q).key
                items == Head(F.q).items
            IN /\ UNCHANGED flushing
               /\ IF key \notin slotMap
                  THEN /\ slotPending' = requeue(slotPending, key, items)
                       /\ Goto([frames EXCEPT ![cur].q = Tail(@)], "f210")
                  ELSE /\ UNCHANGED slotPending
                       /\ IF items = <<>>
                          THEN Goto([frames EXCEPT ![cur].q = Tail(@)], "f210")
                          ELSE CallFrame([frames EXCEPT ![cur].q =
                                              <<[key |-> key, items |-> Tail(items)]>> \o Tail(@)],
                                         "f219", setSlotFrame(key, Head(items), cur))
    /\ UNCHANGED <<planVars, regVars, extraVars, layoutVarsButFrames, slotRoot, slotMap, region, submitted>>

\* flush, line 219: await this.setSlot(key, it)
FlushAwait ==
    /\ running("flush", "f219")
    /\ AwaitCallee("f210")
    /\ UNCHANGED <<planVars, regVars, extraVars, layoutVarsButFrames, slotVars>>

\* ---- the host and its owner calling the slots feature ----------------------
canCallSlots == stack = <<>> /\ calls < MaxSlotCalls
given == {frames[f].arg.content : f \in {g \in 1..Len(frames) : frames[g].fn = "setSlot"}}

\* onRootCreated, lines 64-71: the templates are collected, void this.flush()
SlotsOnRootCreated ==
    /\ canCallSlots
    /\ ~slotRoot
    /\ slotRoot' = TRUE
    /\ slotMap' = Templates
    /\ enter(flushFrame)
    /\ UNCHANGED <<planVars, regVars, extraVars, listeners, plugins, renders, root, rootNode, mounted, parentNode, attached, cleanups,
                   children, pending, count, addedBy, detached,
                   slotPending, flushing, region, submitted>>

\* onMounted, lines 77-79: return this.flush()
SlotsOnMounted ==
    /\ canCallSlots
    /\ slotRoot
    /\ enter(flushFrame)
    /\ UNCHANGED <<planVars, regVars, extraVars, listeners, plugins, renders, root, rootNode, mounted, parentNode, attached, cleanups,
                   children, pending, count, addedBy, detached, slotVars>>

\* setSlot(name, content) called by the owner of P, each content once
CallSetSlot ==
    /\ canCallSlots
    /\ \E name \in SlotNames : \E content \in Contents \ given :
          enter(setSlotFrame(name, content, 0))
    /\ UNCHANGED <<planVars, regVars, extraVars, listeners, plugins, renders, root, rootNode, mounted, parentNode, attached, cleanups,
                   children, pending, count, addedBy, detached, slotVars>>

(***************************************************************************)
(* Class chains: collectFeatureSpecs (featureSpecs.ts), the UseFeatures    *)
(* decorator and the withFeatures mixin (UseFeatures.ts).  Class 1 is      *)
(* Layout; the prototype of a class constructor is its parent class, and   *)
(* the prototype of Layout is Function.prototype (parent 0).               *)
(***************************************************************************)
\* the specifications a declaration may name
DeclaredSpecChoices ==
    {[name |-> Undef, feature |-> "K1"], [name |-> Undef, feature |-> "K2"],
     [name |-> Undef, feature |-> "K3"], [name |-> "y", feature |-> "K1"]}
DeclaredLists == SeqsUpTo(DeclaredSpecChoices, 1)

classDecl(parent, hasOwn, own, declared, via) ==
    [parent |-> parent, hasOwn |-> hasOwn, own |-> own, declared |-> declared, via |-> via]

\* cur[USE_FEATURES_KEY]: the own property of the nearest class on the
\* prototype chain that has one, <<>> for undefined
RECURSIVE specsProperty(_)
specsProperty(c) ==
    IF c = 0 THEN <<>>
    ELSE IF classes[c].hasOwn THEN classes[c].own
    ELSE specsProperty(classes[c].parent)

\* A mutation of collectFeatureSpecs: only the class itself is read.
collectFeatureSpecsOwn(c) == IF c = 0 THEN <<>> ELSE classes[c].own

\* collectFeatureSpecs(ctor), featureSpecs.ts lines 39-48
RECURSIVE collectFeatureSpecs(_)
collectFeatureSpecs(c) ==
    IF c = 0 THEN <<>>
    ELSE specsProperty(c) \o collectFeatureSpecs(classes[c].parent)

\* class X extends Base {}
DeclareClass(base) ==
    /\ Len(classes) <= MaxClasses
    /\ classes' = Append(classes, classDecl(base, FALSE, <<>>, <<>>, "class"))
    /\ UNCHANGED <<planVars, layoutVars, slotVars, regVars, reactVars, routerVars, hostVars, laterVars, collected>>

\* @UseFeatures(...list) class X extends Base {}, UseFeatures.ts line 45
UseFeatures(base, list) ==
    /\ Len(classes) <= MaxClasses
    /\ classes' = Append(classes, classDecl(base, TRUE, list, list, "UseFeatures"))
    /\ UNCHANGED <<planVars, layoutVars, slotVars, regVars, reactVars, routerVars, hostVars, laterVars, collected>>

\* withFeatures(Base, ...list), UseFeatures.ts lines 68-83
withFeatures(base, list) ==
    /\ Len(classes) <= MaxClasses
    /\ classes' = Append(classes,
            classDecl(base, TRUE, collectFeatureSpecs(base) \o list, list, "withFeatures"))
    /\ UNCHANGED <<planVars, layoutVars, slotVars, regVars, reactVars, routerVars, hostVars, laterVars, collected>>

\* the plan of a class: buildFeaturePlan over collectFeatureSpecs(ctor)
CollectAndPlan(c) ==
    /\ collected.cls # c
    /\ collected' = [cls |-> c, list |-> collectFeatureSpecs(c)]
    /\ planResult' = buildFeaturePlan(collectFeatureSpecs(c))
    /\ UNCHANGED <<featureName, dependencies, specs, classes, layoutVars, slotVars, regVars,
                   reactVars, routerVars, hostVars, laterVars>>

ChainIdle ==
    /\ classes = <<classDecl(0, FALSE, <<>>, <<>>, "class")>>
    /\ collected = [cls |-> 0, list |-> <<>>]

(***************************************************************************)
(* Signals and effects: utils/reactive.ts.  A set() call notifies the      *)
(* snapshot of its subscribers one eff.run() at a time; an effect's fn     *)
(* reads signals and may call the disposer of an effect.                   *)
(***************************************************************************)
Signals == {"a", "b"}
Effects == {"e1", "e2"}
SignalValues == {0, 1}

\* for (const dep of ctx.deps) dep.subscribers.delete(ctx); ctx.deps.clear()
\* (lines 132-133 and 151-152)
unsubscribe(e, st) ==
    [st EXCEPT
        !.subscribers = [s \in Signals |->
            IF s \in st.deps[e] /\ setHas(st.subscribers[s], e)
            THEN setDelete(st.subscribers[s], e) ELSE st.subscribers[s]],
        !.deps = [st.deps EXCEPT ![e] = {}]]

\* the disposer returned by effect(fn), lines 150-153
dispose(e, st) == [unsubscribe(e, st) EXCEPT !.disposed = @ \cup {e}]

\* SignalImpl.get under active = e, lines 59-65, for every signal fn reads
readAll(e, st) ==
    [st EXCEPT
        !.subscribers = [s \in Signals |->
            IF s \in effectReads[e] THEN setAdd(st.subscribers[s], e) ELSE st.subscribers[s]],
        !.deps = [st.deps EXCEPT ![e] = @ \cup effectReads[e]]]

\* fn of effect e: its reads, and the call of a disposer it holds
userFn(e, st) ==
    LET t == effectStops[e]
        stop(x) == IF t # "none" /\ t \in created THEN dispose(t, x) ELSE x
    IN IF stopsFirst THEN readAll(e, stop(st)) ELSE stop(readAll(e, st))

\* ctx.run(), lines 130-142
run(e, st) ==
    userFn(e, [unsubscribe(e, st) EXCEPT
                  !.lateRuns = [@ EXCEPT ![e] = IF e \in st.disposed THEN @ + 1 ELSE @]])

reactState ==
    [subscribers |-> subscribers, deps |-> ctxDeps, disposed |-> disposed, lateRuns |-> lateRuns]
become(st) ==
    /\ subscribers' = st.subscribers
    /\ ctxDeps' = st.deps
    /\ disposed' = st.disposed
    /\ lateRuns' = st.lateRuns
otherThanReact == <<planVars, layoutVars, slotVars, regVars, chainVars, routerVars, hostVars, laterVars>>

\* effect(fn), lines 128-154: the first run, then the disposer is returned
effect(e) ==
    /\ notifyQueue = <<>>
    /\ e \notin created
    /\ become(run(e, reactState))
    /\ created' = created \cup {e}
    /\ UNCHANGED <<otherThanReact, effectReads, effectStops, stopsFirst, value, notifyQueue,
                   writes>>

\* the disposer called by the code that created the effect
CallDisposer(e) ==
    /\ notifyQueue = <<>>
    /\ e \in created \ disposed
    /\ become(dispose(e, reactState))
    /\ UNCHANGED <<otherThanReact, effectReads, effectStops, stopsFirst, value, created,
                   notifyQueue, writes>>

\* SignalImpl.set, lines 70-76: the value is stored and the subscribers copied
SignalSet(s, v) ==
    /\ notifyQueue = <<>>
    /\ writes < MaxWrites
    /\ writes' = writes + 1
    /\ IF v = value[s]
       THEN UNCHANGED <<value, notifyQueue>>
       ELSE /\ value' = [value EXCEPT ![s] = v]
            /\ notifyQueue' = subscribers[s]
    /\ UNCHANGED <<otherThanReact, effectReads, effectStops, stopsFirst, subscribers, ctxDeps,
                   created, disposed, lateRuns>>

\* SignalImpl.set, lines 76-78: eff.run() for the next effect of the copy
Notify ==
    /\ notifyQueue # <<>>
    /\ become(run(Head(notifyQueue), reactState))
    /\ notifyQueue' = Tail(notifyQueue)
    /\ UNCHANGED <<otherThanReact, effectReads, effectStops, stopsFirst, value, created,
                   writes>>

ReactIdle ==
    /\ effectReads = [e \in Effects |-> {}]
    /\ effectStops = [e \in Effects |-> "none"]
    /\ stopsFirst = FALSE
    /\ value = [s \in Signals |-> 0]
    /\ subscribers = [s \in Signals |-> <<>>]
    /\ ctxDeps = [e \in Effects |-> {}]
    /\ created = {}
    /\ disposed = {}
    /\ lateRuns = [e \in Effects |-> 0]
    /\ notifyQueue = <<>>
    /\ writes = 0

(***************************************************************************)
(* Router.navigate: router/Router.ts.  A navigation runs until its next    *)
(* await; guards, page loading and the page's mountTo / destroy settle     *)
(* when the application lets them, everything else after one tick.         *)
(***************************************************************************)
Routes == {"/a", "/b", "/old"}
Paths == Routes \cup {"/nope"}
Guards == {"g1", "g2"}
\* opts.redirectTo of every route
redirectTo == [r \in Routes |-> IF r = "/old" THEN "/a" ELSE "none"]
MiddlewareChoices ==
    {m \in [Routes -> {<<>>, <<"g1">>, <<"g1", "g2">>}] :
        m["/b"] = <<>> /\ Len(m["/old"]) <= 1}

\* this.match(destPath)
match(path) == path \in Routes

otherThanRouter == <<planVars, layoutVars, slotVars, regVars, chainVars, reactVars, hostVars, laterVars>>

\* a navigate(to) activation; via: the navigation that redirected to it
newNav(to, via, pc, status) ==
    [to |-> to, via |-> via, pc |-> pc, status |-> status, mw |-> 0, invoked |-> <<>>,
     verdicts |-> <<>>, myToken |-> 0, pushed |-> FALSE, loadCalled |-> FALSE, page |-> 0]

\* A mutation of cancels: no verdict cancels the navigation.
cancelsNever(verdict) == FALSE

\* line 321: !(await mw(toTarget, fromTarget))
cancels(verdict) == ~verdict

\* A mutation of isLatest: the token check always passes.
isLatestAlways(myToken, token) == TRUE

\* line 341: myToken !== this.navToken returns
isLatest(myToken, token) == myToken = token

\* currentPage.destroy() is called
destroyCurrent(ps) == [ps EXCEPT ![currentPage].destroys = @ + 1]

\* Layout.destroy() of the current page removes its root from the container
rootRemoved(roots) == roots \ {currentPage}

\* showError without an error page, lines 407-410: the current page, if any,
\* is destroyed and awaited
ShowErrorFrom(i, ns, q, final) ==
    IF currentPage # 0
    THEN /\ pages' = destroyCurrent(pages)
         /\ inContainer' = rootRemoved(inContainer)
         /\ navs' = [ns EXCEPT ![i].status = "awaiting-page", ![i].pc = "e411"]
         /\ navQueue' = q
         /\ UNCHANGED <<currentPage, shown>>
    ELSE /\ navs' = [ns EXCEPT ![i].status = final, ![i].pc = "end"]
         /\ navQueue' = q
         /\ currentPage' = 0
         /\ shown' = "error"
         /\ inContainer' = {}
         /\ UNCHANGED pages

\* lines 320-339 from the guard loop on: the next guard is invoked, or the
\* redirect is followed, or history is written, the token taken and the
\* page class requested
GuardsFrom(i, ns, q) ==
    LET n == ns[i]
        mws == routeMiddlewares[n.to]
    IN IF n.mw < Len(mws)
       THEN /\ navs' = [ns EXCEPT ![i].invoked = Append(@, mws[n.mw + 1]),
                                   ![i].status = "awaiting-mw", ![i].pc = "n321"]
            /\ navQueue' = q
            /\ UNCHANGED <<navToken, history>>
       ELSE IF redirectTo[n.to] # "none"
       THEN /\ navs' = Append([ns EXCEPT ![i].status = "redirected", ![i].pc = "end"],
                              newNav(redirectTo[n.to], i, "n320", "queued"))
            /\ navQueue' = Append(q, Len(ns) + 1)
            /\ UNCHANGED <<navToken, history>>
       ELSE /\ history' = Append(history, n.to)
            /\ navToken' = navToken + 1
            /\ navs' = [ns EXCEPT ![i].pushed = TRUE, ![i].myToken = navToken + 1,
                                   ![i].loadCalled = TRUE,
                                   ![i].status = "awaiting-load", ![i].pc = "n341"]
            /\ navQueue' = q

\* the navigation the event loop resumes next
resumed(pc) == navQueue # <<>> /\ navs[Head(navQueue)].pc = pc
N == Head(navQueue)

\* navigate(to), lines 289-317: no match shows the 404 (here: the error
\* view); a match awaits resolveCurrentTarget()
CallNavigate(to) ==
    /\ Len(navs) + (IF match(to) /\ redirectTo[to] # "none" THEN 2 ELSE 1) <= MaxNavs
    /\ IF match(to)
       THEN /\ navs' = Append(navs, newNav(to, 0, "n320", "queued"))
            /\ navQueue' = Append(navQueue, Len(navs) + 1)
            /\ UNCHANGED <<pages, currentPage, shown, inContainer>>
       ELSE ShowErrorFrom(Len(navs) + 1, Append(navs, newNav(to, 0, "n307", "queued")),
                          navQueue, "notfound")
    /\ UNCHANGED <<otherThanRouter, routeMiddlewares, titleVars, navToken, history>>

\* line 320 after the await of line 317
NavigateGuards ==
    /\ resumed("n320")
    /\ GuardsFrom(N, navs, Tail(navQueue))
    /\ UNCHANGED <<otherThanRouter, routeMiddlewares, titleVars, inContainer, currentPage, pages, shown>>

\* the promise a guard returned settles with a verdict
ResolveMiddleware(i, verdict) ==
    /\ navs[i].status = "awaiting-mw"
    /\ navs' = [navs EXCEPT ![i].status = "queued", ![i].verdicts = Append(@, verdict)]
    /\ navQueue' = Append(navQueue, i)
    /\ UNCHANGED <<otherThanRouter, routeMiddlewares, titleVars, inContainer, navToken, history, currentPage, pages,
                   shown>>

\* line 321 after its await: a cancelling verdict returns, another continues
NavigateAfterGuard ==
    /\ resumed("n321")
    /\ LET v == navs[N].verdicts[Len(navs[N].verdicts)]
       IN IF cancels(v)
          THEN /\ navs' = [navs EXCEPT ![N].status = "cancelled", ![N].pc = "end"]
               /\ navQueue' = Tail(navQueue)
               /\ UNCHANGED <<navToken, history>>
          ELSE GuardsFrom(N, [navs EXCEPT ![N].mw = @ + 1], Tail(navQueue))
    /\ UNCHANGED <<otherThanRouter, routeMiddlewares, titleVars, inContainer, currentPage, pages, shown>>

\* match.loadPage() settles: the page class, or a rejection
ResolveLoad(i, ok) ==
    /\ navs[i].status = "awaiting-load"
    /\ navs' = [navs EXCEPT ![i].status = "queued", ![i].pc = IF ok THEN "n341" ELSE "n353"]
    /\ navQueue' = Append(navQueue, i)
    /\ UNCHANGED <<otherThanRouter, routeMiddlewares, titleVars, inContainer, navToken, history, currentPage, pages,
                   shown>>

\* mountPage line 453: the held title effect, if any, is disposed
offTitle(effects) == effects \ {offTitleEffect}

\* lines 341-344 and mountPage lines 453-454: the token check, new
\* PageClass(), and the await of currentPage?.destroy()
NavigateLoaded ==
    /\ resumed("n341")
    /\ IF ~isLatest(navs[N].myToken, navToken)
       THEN /\ navs' = [navs EXCEPT ![N].status = "stale", ![N].pc = "end"]
            /\ navQueue' = Tail(navQueue)
            /\ UNCHANGED <<pages, titleVars, inContainer>>
       ELSE LET page == Len(pages) + 1
                made == Append(pages, [nav |-> N, mounts |-> 0, destroys |-> 0])
            IN /\ titleEffects' = offTitle(titleEffects)
               /\ offTitleEffect' = 0
               /\ IF currentPage # 0
                  THEN /\ pages' = destroyCurrent(made)
                       /\ inContainer' = rootRemoved(inContainer)
                       /\ navs' = [navs EXCEPT ![N].page = page, ![N].pc = "p456",
                                                ![N].status = "awaiting-page"]
                       /\ navQueue' = Tail(navQueue)
                  ELSE /\ pages' = made
                       /\ navs' = [navs EXCEPT ![N].page = page, ![N].pc = "p456"]
                       /\ navQueue' = Append(Tail(navQueue), N)
                       /\ UNCHANGED inContainer
    /\ UNCHANGED <<otherThanRouter, routeMiddlewares, navToken, history, currentPage, shown>>

\* the catch of lines 353-355, after loadPage() rejected
NavigateCatch ==
    /\ resumed("n353")
    /\ ShowErrorFrom(N, navs, Tail(navQueue), "failed")
    /\ UNCHANGED <<otherThanRouter, routeMiddlewares, titleVars, navToken, history>>

\* showError, lines 411-414, after the await of destroy()
ShowErrorEnd ==
    /\ resumed("e411")
    /\ navs' = [navs EXCEPT ![N].status = IF navs[N].loadCalled THEN "failed" ELSE "notfound",
                             ![N].pc = "end"]
    /\ navQueue' = Tail(navQueue)
    /\ currentPage' = 0
    /\ shown' = "error"
    /\ inContainer' = {}
    /\ UNCHANGED <<otherThanRouter, routeMiddlewares, titleVars, navToken, history, pages>>

\* mountPage line 456: page.mountTo(this.container) is called and awaited
MountPageMount ==
    /\ resumed("p456")
    /\ pages' = [pages EXCEPT ![navs[N].page].mounts = @ + 1]
    /\ inContainer' = inContainer \cup {navs[N].page}
    /\ navs' = [navs EXCEPT ![N].status = "awaiting-page", ![N].pc = "p457"]
    /\ navQueue' = Tail(navQueue)
    /\ UNCHANGED <<otherThanRouter, routeMiddlewares, titleVars, navToken, history, currentPage, shown>>

\* mountPage lines 457-463 and the scroll of lines 347-352
MountPageEnd ==
    /\ resumed("p457")
    /\ currentPage' = navs[N].page
    /\ shown' = "page"
    /\ offTitleEffect' = navs[N].page
    /\ titleEffects' = titleEffects \cup {navs[N].page}
    /\ navs' = [navs EXCEPT ![N].status = "done", ![N].pc = "end"]
    /\ navQueue' = Tail(navQueue)
    /\ UNCHANGED <<otherThanRouter, routeMiddlewares, inContainer, navToken, history, pages>>

\* the promise of a page's mountTo() or destroy() settles
PageSettles(i) ==
    /\ navs[i].status = "awaiting-page"
    /\ navs' = [navs EXCEPT ![i].status = "queued"]
    /\ navQueue' = Append(navQueue, i)
    /\ UNCHANGED <<otherThanRouter, routeMiddlewares, titleVars, inContainer, navToken, history, currentPage, pages,
                   shown>>

\* the promise of the page's mountTo() rejects, Layout.ts lines 170-197: a
\* hook before container.append(root) threw, or one after it; the catch of
\* navigate() lines 353-355 is entered
PageThrows(i, appended) ==
    /\ navs[i].status = "awaiting-page"
    /\ navs[i].pc = "p457"
    /\ navs' = [navs EXCEPT ![i].status = "queued", ![i].pc = "n353"]
    /\ navQueue' = Append(navQueue, i)
    /\ inContainer' = IF appended THEN inContainer ELSE inContainer \ {navs[i].page}
    /\ UNCHANGED <<otherThanRouter, routeMiddlewares, titleVars, navToken, history, currentPage,
                   pages, shown>>

RouterIdle ==
    /\ routeMiddlewares = [r \in Routes |-> <<>>]
    /\ navs = <<>>
    /\ navQueue = <<>>
    /\ navToken = 0
    /\ history = <<>>
    /\ currentPage = 0
    /\ pages = <<>>
    /\ shown = "none"
    /\ offTitleEffect = 0
    /\ titleEffects = {}
    /\ inContainer = {}

(***************************************************************************)
(* A freshly constructed host H: components/Layout.ts.  The constructor    *)
(* has queued the features-ready microtask; the calls made on H before and *)
(* after it fires are getElement() and destroy() (H is never mounted).     *)
(***************************************************************************)
MaxHooks == 3
MaxHostDestroys == 2
HookKinds == {"children", "probe", "thenable", "slots"}
\* the buckets of at most MaxHooks features, no name twice
InstalledChoices ==
    {fs \in UNION {[1..n -> HookKinds] : n \in 0..MaxHooks} :
        \A i, j \in 1..Len(fs) : fs[i] = fs[j] => i = j}

\* Layout.ensureRoot() of H, lines 273-311: the afterRender calls it made, the
\* value the loop ended with, and the root it stored ("none" when it threw)
hostEnsureRoot ==
    LET loop == afterRenderLoop(installed, 1, rendered, <<>>)
        node == parseHtml(loop.node)
        ok == ~loop.threw /\ node # "none" /\ isElement(node)
    IN [status |-> IF ok THEN "root" ELSE "threw", called |-> loop.called,
        candidate |-> loop.node, root |-> IF ok THEN node ELSE "none"]

\* forEachFeature(this, f => f.onFeaturesReady?.(this)): the number of hooks
\* invoked; of the modelled features only the probe implements the hook
notifyFeaturesReady == Cardinality({i \in 1..Len(installed) : installed[i] = "probe"})

\* Layout.getElement(), lines 249-252: if (!this.root) this.ensureRoot()
HostGetElement ==
    /\ rootBuild.status # "root"
    /\ rootBuild' = hostEnsureRoot
    /\ UNCHANGED <<planVars, layoutVars, slotVars, regVars, chainVars, reactVars, routerVars, laterVars,
                   installed, rendered, readyTask, hostDestroys, readyHooks, lateReady>>

\* Layout.destroy() on the unmounted H, lines 210-243: the beforeDestroy
\* broadcast, the flush of line 238, the listeners; the queued microtask and
\* the bucket of H are not touched
HostDestroy ==
    /\ hostDestroys < MaxHostDestroys
    /\ hostDestroys' = hostDestroys + 1
    /\ UNCHANGED <<planVars, layoutVars, slotVars, regVars, chainVars, reactVars, routerVars, laterVars,
                   installed, rendered, rootBuild, readyTask, readyHooks, lateReady>>

\* the callback of queueMicrotask, lines 68-70
FeaturesReady ==
    /\ readyTask = "queued"
    /\ readyTask' = "fired"
    /\ readyHooks' = readyHooks + notifyFeaturesReady
    /\ lateReady' = IF hostDestroys > 0 THEN lateReady + notifyFeaturesReady ELSE lateReady
    /\ UNCHANGED <<planVars, layoutVars, slotVars, regVars, chainVars, reactVars, routerVars, laterVars,
                   installed, rendered, rootBuild, hostDestroys>>

HostIdle ==
    /\ installed = <<>>
    /\ rendered = "element"
    /\ rootBuild = [status |-> "none", called |-> <<>>, candidate |-> "none", root |-> "none"]
    /\ readyTask = "fired"
    /\ hostDestroys = 0
    /\ readyHooks = 0
    /\ lateReady = 0

(***************************************************************************)
(* Construction of an instance of a class with features: the Layout        *)
(* constructor (components/Layout.ts), then the features of the class,     *)
(* installed by the UseFeatures wrapper's constructor or by the @Feature   *)
(* field initializers, through attachFeature.                              *)
(***************************************************************************)
MaxUseSpecs == 3
SpecNames == {"a", "b", ""}
FeatureKeys == SpecNames \ {""}
UseSpecLists == UNION {[1..n -> SpecNames] : n \in 0..MaxUseSpecs}
otherThanCtor ==
    <<planVars, layoutVars, slotVars, regVars, chainVars, reactVars, routerVars, hostVars,
      stateVars,
      scopeVars,
      cleanupVars>>

\* Layout constructor, lines 65-70: this.created?.(), then queueMicrotask
LayoutConstructor ==
    /\ ctorPc = "new"
    /\ createdCalls' = createdCalls + 1
    /\ readyQueue' = Append(readyQueue, "Layout")
    /\ ctorPc' = "specs"
    /\ ctorIdx' = 1
    /\ UNCHANGED <<otherThanCtor, useSpecs, decorated, hostBucket, initCalls, readyGot>>

\* one feature of the class: normalizeSpec and the missing-name throw of the
\* wrapper, then attachFeature (throws on a name already in the bucket, else
\* bucket.set and feature.onInit?.(host))
InstallFeature ==
    /\ ctorPc = "specs" /\ ctorIdx <= Len(useSpecs)
    /\ LET name == useSpecs[ctorIdx]
       IN IF name = "" \/ \E i \in 1..Len(hostBucket) : hostBucket[i] = name
          THEN /\ ctorPc' = "threw"
               /\ UNCHANGED <<ctorIdx, hostBucket, initCalls>>
          ELSE /\ hostBucket' = Append(hostBucket, name)
               /\ initCalls' = [initCalls EXCEPT ![name] = @ + 1]
               /\ ctorIdx' = ctorIdx + 1
               /\ UNCHANGED ctorPc
    /\ UNCHANGED <<otherThanCtor, useSpecs, decorated, createdCalls, readyQueue, readyGot>>

\* the end of the constructor: the wrapper queues notifyFeaturesReady
ConstructorEnd ==
    /\ ctorPc = "specs" /\ ctorIdx > Len(useSpecs)
    /\ readyQueue' = IF decorated THEN Append(readyQueue, "WithFeatures") ELSE readyQueue
    /\ ctorPc' = "done"
    /\ UNCHANGED <<otherThanCtor, useSpecs, decorated, ctorIdx, hostBucket, createdCalls,
                   initCalls, readyGot>>

\* a queued microtask runs once the constructor's synchronous code has ended:
\* forEachFeature(host, f => f.onFeaturesReady?.(host))
ReadyMicrotask ==
    /\ ctorPc \in {"done", "threw"} /\ readyQueue # <<>>
    /\ readyQueue' = Tail(readyQueue)
    /\ readyGot' = [n \in FeatureKeys |->
                       IF \E i \in 1..Len(hostBucket) : hostBucket[i] = n
                       THEN readyGot[n] + 1 ELSE readyGot[n]]
    /\ UNCHANGED <<otherThanCtor, useSpecs, decorated, ctorPc, ctorIdx, hostBucket,
                   createdCalls, initCalls>>

CtorIdle ==
    /\ useSpecs = <<>>
    /\ decorated = FALSE
    /\ ctorPc = "done"
    /\ ctorIdx = 1
    /\ hostBucket = <<>>
    /\ createdCalls = 0
    /\ initCalls = [n \in FeatureKeys |-> 0]
    /\ readyQueue = <<>>
    /\ readyGot = [n \in FeatureKeys |-> 0]

(***************************************************************************)
(* Layout.setState: components/Layout.ts.  A partial is a bag too: a key   *)
(* it does not have carries NoValue.  Every hook invocation is recorded     *)
(* with the state bag it could read.                                        *)
(***************************************************************************)
MaxSetStates == 2
MaxStatePlugins == 2
NoValue == 0
StateKeys == {"x", "y"}
StateValues == {1, 2}
Bags == [StateKeys -> StateValues \cup {NoValue}]
otherThanState ==
    <<planVars, layoutVars, slotVars, regVars, chainVars, reactVars, routerVars, hostVars,
      ctorVars,
      scopeVars,
      cleanupVars>>

\* A mutation of assign: the target is replaced by the source.
assignReplace(target, source) == source

\* Object.assign(target, source): the keys of source overwrite, the others stay
assign(target, source) ==
    [k \in StateKeys |-> IF source[k] # NoValue THEN source[k] ELSE target[k]]

\* forEachFeature(this, f => f.hook?.(partial)): one record per feature, in
\* bucket order, with the state bag at the time of the call
broadcast(hook, bag) == [i \in 1..stPlugins |-> [hook |-> hook, at |-> i, saw |-> bag]]

\* Layout.setState(partial), lines 323-331
setState(partial) ==
    /\ setCalls < MaxSetStates
    /\ setCalls' = setCalls + 1
    /\ LET merged == assign(state, partial)
       IN /\ state' = merged
          /\ lastUpdate' =
                [partial |-> partial, before |-> state,
                 ran |-> broadcast("beforeUpdate", state) \o broadcast("onStateChanged", state)
                         \o <<[hook |-> "update", at |-> 0, saw |-> merged]>>
                         \o broadcast("afterUpdate", merged)]
    /\ UNCHANGED <<otherThanState, stMounted, stPlugins>>

\* the component gets mounted (mountTo line 183) or unmounted (destroy line 225)
SetMounted ==
    /\ stMounted' = ~stMounted
    /\ UNCHANGED <<otherThanState, state, stPlugins, lastUpdate, setCalls>>

StateIdle ==
    /\ state = [k \in StateKeys |-> NoValue]
    /\ stMounted = FALSE
    /\ stPlugins = 0
    /\ lastUpdate = [partial |-> [k \in StateKeys |-> NoValue],
                     before |-> [k \in StateKeys |-> NoValue], ran |-> <<>>]
    /\ setCalls = 0

(***************************************************************************)
(* DisposableScope (utils/disposables.ts) next to the cleanup list of      *)
(* Layout (components/Layout.ts): the same cleanups are registered with    *)
(* both and both are flushed by the same calls.  A cleanup settles when    *)
(* its owner lets it; it may throw, and one may register the cleanup "dx". *)
(***************************************************************************)
MaxFlushes == 2
DisposerIds == {"d1", "d2"}
Nested == "dx"
otherThanScope ==
    <<planVars, layoutVars, slotVars, regVars, chainVars, reactVars, routerVars, hostVars,
      ctorVars, stateVars,
      cleanupVars>>

\* A mutation of shifted: the disposer stays at the head of the array.
shiftedNone(ds) == ds

\* this.disposers.shift(): what is left in the array
shifted(ds) == Tail(ds)

\* the array after cleanup d was invoked: d may have registered Nested
afterInvoke(list, d) == IF d = nests THEN Append(list, Nested) ELSE list
invocation(d, f) == [id |-> d, flush |-> f, settled |-> FALSE]
settle(log, d) == [i \in 1..Len(log) |-> IF log[i].id = d THEN [log[i] EXCEPT !.settled = TRUE]
                                         ELSE log[i]]

\* DisposableScope.flush, lines 59-63, activation f from its loop test to
\* its next await (or its end)
scopeLoop(f, fl) ==
    IF disposers = <<>>
    THEN /\ sFlush' = [fl EXCEPT ![f] = [status |-> "done", on |-> "none"]]
         /\ UNCHANGED <<disposers, addOrder>>
         /\ sLog' = IF fl[f].on = "none" THEN sLog ELSE settle(sLog, fl[f].on)
    ELSE LET d == Head(disposers)
         IN /\ disposers' = afterInvoke(shifted(disposers), d)
            /\ addOrder' = afterInvoke(addOrder, d)
            /\ sLog' = Append(IF fl[f].on = "none" THEN sLog ELSE settle(sLog, fl[f].on),
                              invocation(d, f))
            /\ sFlush' = [fl EXCEPT ![f] = [status |-> "awaiting", on |-> d]]

\* Layout.destroy, lines 222, 233, 238: for (const c of spliced) await c(),
\* activation f from one iteration to its next await (or its end)
hostLoop(f, fl, list) ==
    IF fl[f].rest = <<>>
    THEN /\ hFlush' = [fl EXCEPT ![f] = [status |-> "done", on |-> "none", rest |-> <<>>]]
         /\ hostCleanups' = list
         /\ hLog' = IF fl[f].on = "none" THEN hLog ELSE settle(hLog, fl[f].on)
    ELSE LET d == Head(fl[f].rest)
         IN /\ hostCleanups' = afterInvoke(list, d)
            /\ hLog' = Append(IF fl[f].on = "none" THEN hLog ELSE settle(hLog, fl[f].on),
                              invocation(d, f))
            /\ hFlush' = [fl EXCEPT ![f] = [status |-> "awaiting", on |-> d,
                                            rest |-> Tail(fl[f].rest)]]

\* scope.add(d) and Layout.registerCleanup(d) by the owner
AddCleanup(d) ==
    /\ d \notin registered
    /\ registered' = registered \cup {d}
    /\ disposers' = Append(disposers, d)
    /\ addOrder' = Append(addOrder, d)
    /\ hostCleanups' = Append(hostCleanups, d)
    /\ UNCHANGED <<otherThanScope, throwers, nests, sFlush, hFlush, sLog, hLog>>

\* scope.flush() and the flush of the Layout list (this.cleanups.splice(0))
StartFlush ==
    /\ Len(sFlush) < MaxFlushes
    /\ scopeLoop(Len(sFlush) + 1, Append(sFlush, [status |-> "new", on |-> "none"]))
    /\ hostLoop(Len(hFlush) + 1,
                Append(hFlush, [status |-> "new", on |-> "none", rest |-> hostCleanups]), <<>>)
    /\ UNCHANGED <<otherThanScope, throwers, nests, registered>>

\* the disposer a scope flush awaits settles: a rejection ends the flush
SettleScope(f) ==
    /\ sFlush[f].status = "awaiting"
    /\ IF sFlush[f].on \in throwers
       THEN /\ sFlush' = [sFlush EXCEPT ![f] = [status |-> "rejected", on |-> "none"]]
            /\ sLog' = settle(sLog, sFlush[f].on)
            /\ UNCHANGED <<disposers, addOrder>>
       ELSE scopeLoop(f, sFlush)
    /\ UNCHANGED <<otherThanScope, hostCleanups, throwers, nests, registered, hFlush, hLog>>

\* the cleanup a Layout flush awaits settles: a rejection ends the destroy
SettleHost(f) ==
    /\ hFlush[f].status = "awaiting"
    /\ IF hFlush[f].on \in throwers
       THEN /\ hFlush' = [hFlush EXCEPT ![f] = [status |-> "rejected", on |-> "none",
                                                rest |-> hFlush[f].rest]]
            /\ hLog' = settle(hLog, hFlush[f].on)
            /\ UNCHANGED hostCleanups
       ELSE hostLoop(f, hFlush, hostCleanups)
    /\ UNCHANGED <<otherThanScope, disposers, throwers, nests, registered, addOrder, sFlush,
                   sLog>>

ScopeIdle ==
    /\ disposers = <<>>
    /\ hostCleanups = <<>>
    /\ throwers = {}
    /\ nests = "none"
    /\ registered = {}
    /\ addOrder = <<>>
    /\ sFlush = <<>>
    /\ hFlush = <<>>
    /\ sLog = <<>>
    /\ hLog = <<>>

(***************************************************************************)
(* What the cleanup-returning hooks hand to Layout.registerCleanup:        *)
(* components/IFeature.ts lines 3-27, components/Layout.ts lines 146-233.   *)
(* One plugin is installed on a host; each of its four hooks returns        *)
(* nothing, a callback, or a promise that resolves to a callback.           *)
(***************************************************************************)
otherThanCleanup ==
    <<planVars, layoutVars, slotVars, regVars, chainVars, reactVars, routerVars, hostVars,
      ctorVars, stateVars, scopeVars>>

\* the hooks declared to return MaybePromise<HookCleanup>, IFeature.ts 16-26
CleanupHooks == {"onMounted", "afterMounted", "onDestroy", "afterDestroy"}
ReturnKinds == {"void", "function", "promise"}

\* line 148: typeof cleanup === "function"
isFunction(returned) == returned = "function"

\* registerCleanup, lines 146-153, on what the hook returned
registerReturned(cs, hook) ==
    IF hookReturns[hook] = "void" THEN cs
    ELSE IF isFunction(hookReturns[hook]) THEN Append(cs, hook)
    ELSE cs

\* lines 222 and 233: for (const c of this.cleanups.splice(0)) await c()
flushed(ran, cs) ==
    [h \in CleanupHooks |-> ran[h] + Cardinality({i \in 1..Len(cs) : cs[i] = h})]

\* mountTo, lines 186-189: the onMounted broadcast
HookOnMounted ==
    /\ cleanupPc = "new"
    /\ heldCleanups' = registerReturned(heldCleanups, "onMounted")
    /\ cleanupPc' = "m191"
    /\ UNCHANGED <<otherThanCleanup, hookReturns, ranCleanups, resolvedHooks>>

\* mountTo, lines 191-197: after the await, the afterMounted broadcast
HookAfterMounted ==
    /\ cleanupPc = "m191"
    /\ heldCleanups' = registerReturned(heldCleanups, "afterMounted")
    /\ cleanupPc' = "mounted"
    /\ UNCHANGED <<otherThanCleanup, hookReturns, ranCleanups, resolvedHooks>>

\* destroy of the mounted host, lines 216-226: the onDestroy broadcast, the
\* first flush, the detach
HookOnDestroy ==
    /\ cleanupPc = "mounted"
    /\ ranCleanups' = flushed(ranCleanups, registerReturned(heldCleanups, "onDestroy"))
    /\ heldCleanups' = <<>>
    /\ cleanupPc' = "d228"
    /\ UNCHANGED <<otherThanCleanup, hookReturns, resolvedHooks>>

\* destroy, lines 228-235: the afterDestroy broadcast, the second flush
HookAfterDestroy ==
    /\ cleanupPc = "d228"
    /\ ranCleanups' = flushed(ranCleanups, registerReturned(heldCleanups, "afterDestroy"))
    /\ heldCleanups' = <<>>
    /\ cleanupPc' = "destroyed"
    /\ UNCHANGED <<otherThanCleanup, hookReturns, resolvedHooks>>

\* the hooks invoked so far, by position
invokedHooks ==
    CASE cleanupPc = "new" -> {}
      [] cleanupPc = "m191" -> {"onMounted"}
      [] cleanupPc = "mounted" -> {"onMounted", "afterMounted"}
      [] cleanupPc = "d228" -> {"onMounted", "afterMounted", "onDestroy"}
      [] OTHER -> CleanupHooks

\* the promise a hook returned resolves to its callback; the host attached
\* no reaction to it
HookPromiseResolves(hook) ==
    /\ hook \in invokedHooks \ resolvedHooks
    /\ hookReturns[hook] = "promise"
    /\ resolvedHooks' = resolvedHooks \cup {hook}
    /\ UNCHANGED <<otherThanCleanup, hookReturns, cleanupPc, heldCleanups, ranCleanups>>

CleanupIdle ==
    /\ hookReturns = [h \in CleanupHooks |-> "void"]
    /\ cleanupPc = "new"
    /\ heldCleanups = <<>>
    /\ ranCleanups = [h \in CleanupHooks |-> 0]
    /\ resolvedHooks = {}

LaterIdle == CtorIdle /\ StateIdle /\ ScopeIdle /\ CleanupIdle

ExtraIdle == ChainIdle /\ ReactIdle /\ RouterIdle /\ HostIdle /\ LaterIdle

(***************************************************************************)
(* The feature registries: attachFeature over FEATURE_STORE, and           *)
(* CoreLayout.with over the instance's _features map.                      *)
(***************************************************************************)
Hosts == {"h1", "h2"}
Keys == {"children", "slots"}
FeatureObjs == {"f1", "f2"}

\* A mutation of bucketHas: no key is ever found.
bucketHasNever(bucket, key) == FALSE

\* Map.has
bucketHas(bucket, key) == \E i \in 1..Len(bucket) : bucket[i].key = key

\* Map.set: an existing key keeps its position and takes the new value
bucketSet(bucket, key, feature) ==
    IF \E i \in 1..Len(bucket) : bucket[i].key = key
    THEN [i \in 1..Len(bucket) |->
            IF bucket[i].key = key THEN [key |-> key, feature |-> feature] ELSE bucket[i]]
    ELSE Append(bucket, [key |-> key, feature |-> feature])

registration(op, host, key, feature, status) ==
    [op |-> op, host |-> host, key |-> key, feature |-> feature, status |-> status]

\* attachFeature(host, key, feature), featureRegistry.ts lines 7-23; a host
\* without a bucket has the empty one
attachFeature(host, key, feature) ==
    /\ attaches < MaxAttaches
    /\ attaches' = attaches + 1
    /\ IF bucketHas(store[host], key)
       THEN /\ regOutcome' = registration("attachFeature", host, key, feature, "throw")
            /\ UNCHANGED <<store, onInits>>
       ELSE /\ store' = [store EXCEPT ![host] = bucketSet(@, key, feature)]
            /\ onInits' = [onInits EXCEPT ![host][feature] = @ + 1]
            /\ regOutcome' = registration("attachFeature", host, key, feature, "ok")
    /\ UNCHANGED <<planVars, layoutVars, slotVars, extraVars, coreFeatures>>

\* CoreLayout.with(key, feature), CoreLayout.ts lines 141-152
CoreLayoutWith(host, key, feature) ==
    /\ attaches < MaxAttaches
    /\ attaches' = attaches + 1
    /\ IF bucketHas(coreFeatures[host], key)
       THEN /\ regOutcome' = registration("with", host, key, feature, "throw")
            /\ UNCHANGED <<coreFeatures, onInits>>
       ELSE /\ coreFeatures' = [coreFeatures EXCEPT ![host] = bucketSet(@, key, feature)]
            /\ onInits' = [onInits EXCEPT ![host][feature] = @ + 1]
            /\ regOutcome' = registration("with", host, key, feature, "ok")
    /\ UNCHANGED <<planVars, layoutVars, slotVars, extraVars, store>>

RegIdle ==
    /\ store = [h \in Hosts |-> <<>>]
    /\ coreFeatures = [h \in Hosts |-> <<>>]
    /\ onInits = [h \in Hosts |-> [f \in FeatureObjs |-> 0]]
    /\ regOutcome = registration("none", "none", "none", "none", "none")
    /\ attaches = 0

SlotIdle ==
    /\ slotRoot = FALSE
    /\ slotMap = {}
    /\ slotPending = <<>>
    /\ flushing = FALSE
    /\ region = [n \in SlotNames |-> <<>>]
    /\ submitted = [n \in SlotNames |-> <<>>]

SlotPluginChoices == {<<"children">>, <<>>}

SlotInit ==
    /\ plugins \in SlotPluginChoices
    /\ renders = "element"
    /\ LayoutIdle
    /\ PlanIdle
    /\ SlotIdle
    /\ RegIdle
    /\ ExtraIdle

SlotNext ==
    \/ CallSetSlot \/ SlotsOnRootCreated \/ SlotsOnMounted
    \/ SetSlotStart \/ SetSlotAwait \/ SetSlotInsert
    \/ FlushStart \/ FlushStep \/ FlushAwait
    \/ RunMicrotask
    \/ Attach \/ AttachAwait \/ AttachAdd
    \/ MountToStart \/ MountToBeforeMount \/ MountToAppend \/ MountToOnMounted
    \/ MountToAfterMount \/ MountToAfterMounted

SlotSpec == SlotInit /\ [][SlotNext]_vars

RegInit ==
    /\ plugins = <<>>
    /\ renders = "element"
    /\ LayoutIdle
    /\ PlanIdle
    /\ SlotIdle
    /\ RegIdle
    /\ ExtraIdle

RegNext ==
    \E host \in Hosts, key \in Keys, feature \in FeatureObjs :
        \/ attachFeature(host, key, feature)
        \/ CoreLayoutWith(host, key, feature)

RegSpec == RegInit /\ [][RegNext]_vars

ChainInit ==
    /\ featureName \in FeatureNameChoices
    /\ dependencies = [c \in Ctors |-> <<>>]
    /\ specs = <<>>
    /\ planResult = [status |-> "none", plan |-> <<>>, visited |-> <<>>]
    /\ plugins = <<>>
    /\ renders = "element"
    /\ LayoutIdle
    /\ SlotIdle
    /\ RegIdle
    /\ ExtraIdle

ChainNext ==
    \/ \E base \in 1..Len(classes) : DeclareClass(base)
    \/ \E base \in 1..Len(classes), list \in DeclaredLists : UseFeatures(base, list)
    \/ \E base \in 1..Len(classes), list \in DeclaredLists : withFeatures(base, list)
    \/ \E c \in 1..Len(classes) : CollectAndPlan(c)

ChainSpec == ChainInit /\ [][ChainNext]_vars

ReactInit ==
    /\ effectReads \in [Effects -> (SUBSET Signals) \ {{}}]
    /\ effectStops \in [Effects -> Effects \cup {"none"}]
    /\ stopsFirst \in BOOLEAN
    /\ value = [s \in Signals |-> 0]
    /\ subscribers = [s \in Signals |-> <<>>]
    /\ ctxDeps = [e \in Effects |-> {}]
    /\ created = {}
    /\ disposed = {}
    /\ lateRuns = [e \in Effects |-> 0]
    /\ notifyQueue = <<>>
    /\ writes = 0
    /\ plugins = <<>>
    /\ renders = "element"
    /\ LayoutIdle
    /\ PlanIdle
    /\ SlotIdle
    /\ RegIdle
    /\ ChainIdle
    /\ RouterIdle
    /\ HostIdle
    /\ LaterIdle

ReactNext ==
    \/ \E e \in Effects : effect(e)
    \/ \E e \in Effects : CallDisposer(e)
    \/ \E s \in Signals, v \in SignalValues : SignalSet(s, v)
    \/ Notify

ReactSpec == ReactInit /\ [][ReactNext]_vars

RouterInit ==
    /\ routeMiddlewares \in MiddlewareChoices
    /\ navs = <<>>
    /\ navQueue = <<>>
    /\ navToken = 0
    /\ history = <<>>
    /\ currentPage = 0
    /\ pages = <<>>
    /\ shown = "none"
    /\ offTitleEffect = 0
    /\ titleEffects = {}
    /\ inContainer = {}
    /\ plugins = <<>>
    /\ renders = "element"
    /\ LayoutIdle
    /\ PlanIdle
    /\ SlotIdle
    /\ RegIdle
    /\ ChainIdle
    /\ ReactIdle
    /\ HostIdle
    /\ LaterIdle

RouterNext ==
    \/ \E to \in Paths : CallNavigate(to)
    \/ NavigateGuards
    \/ \E i \in 1..Len(navs), verdict \in BOOLEAN : ResolveMiddleware(i, verdict)
    \/ NavigateAfterGuard
    \/ \E i \in 1..Len(navs), ok \in BOOLEAN : ResolveLoad(i, ok)
    \/ NavigateLoaded
    \/ NavigateCatch
    \/ ShowErrorEnd
    \/ MountPageMount
    \/ MountPageEnd
    \/ \E i \in 1..Len(navs) : PageSettles(i)
    \/ \E i \in 1..Len(navs), appended \in BOOLEAN : PageThrows(i, appended)

RouterSpec == RouterInit /\ [][RouterNext]_vars

\* the state after new H(): the constructor ran created() and queued the
\* features-ready microtask
HostInit ==
    /\ installed \in InstalledChoices
    /\ rendered \in RenderChoices
    /\ rootBuild = [status |-> "none", called |-> <<>>, candidate |-> "none", root |-> "none"]
    /\ readyTask = "queued"
    /\ hostDestroys = 0
    /\ readyHooks = 0
    /\ lateReady = 0
    /\ plugins = <<>>
    /\ renders = "element"
    /\ LayoutIdle
    /\ PlanIdle
    /\ SlotIdle
    /\ RegIdle
    /\ ChainIdle
    /\ ReactIdle
    /\ RouterIdle
    /\ LaterIdle

HostNext ==
    \/ HostGetElement
    \/ HostDestroy
    \/ FeaturesReady

HostSpec == HostInit /\ [][HostNext]_vars

\* new W() is about to run; @Feature fields have distinct names
CtorInit ==
    /\ useSpecs \in UseSpecLists
    /\ decorated \in BOOLEAN
    /\ ~decorated => \A i, j \in 1..Len(useSpecs) :
                         useSpecs[i] # "" /\ (useSpecs[i] = useSpecs[j] => i = j)
    /\ ctorPc = "new"
    /\ ctorIdx = 1
    /\ hostBucket = <<>>
    /\ createdCalls = 0
    /\ initCalls = [n \in FeatureKeys |-> 0]
    /\ readyQueue = <<>>
    /\ readyGot = [n \in FeatureKeys |-> 0]
    /\ plugins = <<>>
    /\ renders = "element"
    /\ LayoutIdle
    /\ PlanIdle
    /\ SlotIdle
    /\ RegIdle
    /\ ChainIdle
    /\ ReactIdle
    /\ RouterIdle
    /\ HostIdle
    /\ CleanupIdle
    /\ ScopeIdle
    /\ StateIdle

CtorNext ==
    \/ LayoutConstructor
    \/ InstallFeature
    \/ ConstructorEnd
    \/ ReadyMicrotask

CtorSpec == CtorInit /\ [][CtorNext]_vars

\* a constructed component: the state bag is empty (line 321)
StateInit ==
    /\ state = [k \in StateKeys |-> NoValue]
    /\ stMounted = FALSE
    /\ stPlugins \in 0..MaxStatePlugins
    /\ lastUpdate = [partial |-> [k \in StateKeys |-> NoValue],
                     before |-> [k \in StateKeys |-> NoValue], ran |-> <<>>]
    /\ setCalls = 0
    /\ plugins = <<>>
    /\ renders = "element"
    /\ LayoutIdle
    /\ PlanIdle
    /\ SlotIdle
    /\ RegIdle
    /\ ChainIdle
    /\ ReactIdle
    /\ RouterIdle
    /\ HostIdle
    /\ CleanupIdle
    /\ ScopeIdle
    /\ CtorIdle

StateNext ==
    \/ \E partial \in Bags : setState(partial)
    \/ SetMounted

StateSpec == StateInit /\ [][StateNext]_vars

\* an empty scope and a component with no cleanups; which cleanups throw and
\* which one registers another is fixed by the application
ScopeInit ==
    /\ disposers = <<>>
    /\ hostCleanups = <<>>
    /\ throwers \in SUBSET DisposerIds
    /\ nests \in DisposerIds \cup {"none"}
    /\ registered = {}
    /\ addOrder = <<>>
    /\ sFlush = <<>>
    /\ hFlush = <<>>
    /\ sLog = <<>>
    /\ hLog = <<>>
    /\ plugins = <<>>
    /\ renders = "element"
    /\ LayoutIdle
    /\ PlanIdle
    /\ SlotIdle
    /\ RegIdle
    /\ ChainIdle
    /\ ReactIdle
    /\ RouterIdle
    /\ HostIdle
    /\ CleanupIdle
    /\ CtorIdle
    /\ StateIdle

ScopeNext ==
    \/ \E d \in DisposerIds : AddCleanup(d)
    \/ StartFlush
    \/ \E f \in 1..Len(sFlush) : SettleScope(f)
    \/ \E f \in 1..Len(hFlush) : SettleHost(f)

ScopeSpec == ScopeInit /\ [][ScopeNext]_vars

CleanupInit ==
    /\ hookReturns \in [CleanupHooks -> ReturnKinds]
    /\ cleanupPc = "new"
    /\ heldCleanups = <<>>
    /\ ranCleanups = [h \in CleanupHooks |-> 0]
    /\ resolvedHooks = {}
    /\ plugins = <<>>
    /\ renders = "element"
    /\ LayoutIdle
    /\ PlanIdle
    /\ SlotIdle
    /\ RegIdle
    /\ ChainIdle
    /\ ReactIdle
    /\ RouterIdle
    /\ HostIdle
    /\ CtorIdle
    /\ StateIdle
    /\ ScopeIdle

CleanupNext ==
    \/ HookOnMounted
    \/ HookAfterMounted
    \/ HookOnDestroy
    \/ HookAfterDestroy
    \/ \E hook \in CleanupHooks : HookPromiseResolves(hook)

CleanupSpec == CleanupInit /\ [][CleanupNext]_vars

Init ==
    /\ plugins \in PluginChoices
    /\ renders \in RenderChoices
    /\ LayoutIdle
    /\ PlanIdle
    /\ SlotIdle
    /\ RegIdle
    /\ ExtraIdle

Next ==
    \/ CallMountTo \/ CallDestroy \/ CallGetElement
    \/ CallAttach \/ CallRegister \/ CallCompose \/ CallDetach \/ CallAddEvent
    \/ RunMicrotask
    \/ MountToStart \/ MountToBeforeMount \/ MountToAppend \/ MountToOnMounted
    \/ MountToAfterMount \/ MountToAfterMounted
    \/ DestroyStart \/ DestroyOnDestroy \/ DestroyFlush \/ DestroyFlushAwait
    \/ DestroyDetach \/ DestroyUnmounted \/ DestroyEnd
    \/ CleanupRun \/ CleanupDone
    \/ OnMounted \/ OnMountedAwait
    \/ OnDestroyPending \/ OnDestroyPendingAwait
    \/ OnDestroyChildren \/ OnDestroyChildrenAwait
    \/ Attach \/ AttachAwait \/ AttachAdd
    \/ Detach \/ DetachAwait \/ DetachEnd

Spec == Init /\ [][Next]_vars

PlanInit ==
    /\ featureName \in FeatureNameChoices
    /\ dependencies \in DependencyChoices
    /\ specs \in SeqsUpTo(SpecChoices, MaxSpecs)
    /\ planResult = [status |-> "none", plan |-> <<>>, visited |-> <<>>]
    /\ plugins = <<>>
    /\ renders = "element"
    /\ LayoutIdle
    /\ SlotIdle
    /\ RegIdle
    /\ ExtraIdle

Build ==
    /\ planResult.status = "none"
    /\ planResult' = buildFeaturePlan(specs)
    /\ UNCHANGED <<featureName, dependencies, specs>>
    /\ UNCHANGED <<layoutVars, slotVars, regVars, extraVars>>

PlanNext == Build

PlanSpec == PlanInit /\ [][PlanNext]_vars

(***************************************************************************)
(* Claims about the feature plan builder (checked under PlanSpec).        *)
(***************************************************************************)
planReturned == planResult.status = "ok"
thePlan == planResult.plan

\* C1: whenever buildFeaturePlan returns a plan, every dependency D declared
\* by the constructor of a plan entry P has an entry under D's canonical
\* featureName at a strictly smaller index than P's entry.
C1_DependencyBeforeDependent ==
    planReturned =>
        \A i \in 1..Len(thePlan) :
            \A k \in 1..Len(dependencies[thePlan[i].ctor]) :
                \E j \in 1..(i - 1) :
                    thePlan[j].name = featureName[dependencies[thePlan[i].ctor][k]]

\* C2: a returned plan never holds two entries with the same resolved name,
\* and an entry is exposed exactly when some top-level specification
\* resolved to its name.
C2_UniqueNamesExposeIsUnion ==
    planReturned =>
        /\ \A i, j \in 1..Len(thePlan) : thePlan[i].name = thePlan[j].name => i = j
        /\ \A i \in 1..Len(thePlan) :
              thePlan[i].expose <=>
                  \E s \in 1..Len(specs) : resolveName(specs[s]) = thePlan[i].name

\* Two top-level specifications of different constructors resolve to the same
\* name and yield one exposed entry, behind a dependency that stays unexposed.
C2_Witness ==
    /\ planReturned
    /\ Len(specs) = 2
    /\ Len(thePlan) = 2
    /\ specs[1].feature # specs[2].feature
    /\ resolveName(specs[1]) = thePlan[2].name
    /\ resolveName(specs[2]) = thePlan[2].name
    /\ thePlan[2].expose
    /\ ~thePlan[1].expose

\* The constructors the specification list requests directly.
requestedCtors == {specs[s].feature : s \in 1..Len(specs)}
dependsOn(c, d) == \E k \in 1..Len(dependencies[c]) : dependencies[c][k] = d
circular(c) == dependsOn(c, c) \/ \E d \in Ctors : dependsOn(c, d) /\ dependsOn(d, c)
allNamed ==
    /\ \A c \in Ctors : ~missingName(featureName[c])
    /\ \A s \in 1..Len(specs) : ~missingName(resolveName(specs[s]))

\* C3: for a specification list whose constructors declare a circular
\* dependency (and every name resolves), buildFeaturePlan terminates and
\* returns a plan.
C3_CycleReturnsPlan ==
    (planResult.status # "none" /\ allNamed /\ \E c \in requestedCtors : circular(c))
        => planReturned

\* C39: in a returned plan every dependency constructor D declared by the
\* constructor of an entry P is itself the constructor of some entry at a
\* smaller index (an entry that merely carries D's canonical name does not
\* count), whatever override names the specification list uses.
C39_DependencyConstructorBeforeDependent ==
    planReturned =>
        \A i \in 1..Len(thePlan) :
            \A k \in 1..Len(dependencies[thePlan[i].ctor]) :
                \E j \in 1..(i - 1) :
                    thePlan[j].ctor = dependencies[thePlan[i].ctor][k]

(***************************************************************************)
(* Claims about the Layout lifecycle (checked under Spec).                *)
(***************************************************************************)
FrameIds == 1..Len(frames)
settled(f) == frames[f].status \in {"done", "rejected"}
\* the activation has appended the root: it stands past line 182
appended(m) == frames[m].pc \in {"m186", "m191", "m194"}
\* position of a feature in the registry of l, 0 when not installed
positionOf(l, name) ==
    IF hasFeature(l, name)
    THEN CHOOSE i \in 1..Len(featuresOf(l)) : featuresOf(l)[i] = name
    ELSE 0
\* the broadcast loop a hook activation was invoked from
loopOf == [onMounted |-> "m186", onDestroy |-> "d216"]

\* C4: when a destroy() of the mounted parent has completed, every child it
\* owned through attach or register and that was not detached has had its
\* destroy() invoked exactly once.
C4_ChildrenDestroyedOnce ==
    \A d \in FrameIds :
        (frames[d].fn = "destroy" /\ frames[d].self = "P" /\ frames[d].live
            /\ frames[d].status = "done")
        => \A c \in frames[d].snap \ detached :
              addedBy[c] \in {"attach", "register"} => count[c]["destroy"] = 1

\* C5: a destroy() called after a destroy() of the mounted component has
\* completed broadcasts no feature hook and runs no cleanup.
C5_SecondDestroyNoOp ==
    \A d \in FrameIds :
        (frames[d].fn = "destroy" /\ frames[d].note)
        => /\ frames[d].fired = 0
           /\ ~\E w \in FrameIds : frames[w].fn = "cleanup" /\ frames[w].parent = d

\* C6: a mountTo() called after a destroy() of the component has completed
\* appends nothing, invokes no feature hook and leaves the component unmounted.
C6_NoMountAfterDestroy ==
    \A m \in FrameIds :
        (frames[m].fn = "mountTo" /\ frames[m].note)
        => ~appended(m) /\ frames[m].fired = 0

\* C7: once the root is set, no step replaces it or runs renderStructure
\* again, and whatever element is attached afterwards is that root.
C7_RootNeverReplaced ==
    [][\A l \in Layouts :
          root[l] # 0 =>
              /\ root'[l] = root[l]
              /\ count'[l]["render"] = count[l]["render"]
              /\ attached'[l] \in {0, root[l]}]_vars

\* P was mounted, destroyed and mounted again with a single render.
C7_Witness ==
    /\ root["P"] # 0
    /\ count["P"]["render"] = 1
    /\ count["P"]["destroy"] >= 1
    /\ count["P"]["append"] >= 2
    /\ attached["P"] = root["P"]

\* C8: once a mountTo call has started the subclass afterMount hook, every
\* feature's onMounted hook that call invoked has completed.
C8_OnMountedBeforeAfterMount ==
    \A m \in FrameIds :
        (frames[m].fn = "mountTo" /\ frames[m].pc = "m194")
        => \A f \in FrameIds :
              (frames[f].fn = "onMounted" /\ frames[f].parent = m) => settled(f)

\* C9: while a feature's mount-time or destroy-time hook is in flight, the
\* broadcast that invoked it has not gone on to a later feature.
C9_HooksOneAtATime ==
    \A f \in FrameIds :
        (frames[f].fn \in DOMAIN loopOf /\ ~settled(f))
        => LET m == frames[f].parent
               l == frames[f].self
               k == positionOf(l, "children")
           IN k < Len(featuresOf(l))
                => frames[m].pc = loopOf[frames[f].fn] /\ frames[m].idx = k + 1

\* C10: over the life of an instance the beforeMountRoot broadcast and the
\* subclass beforeMount hook each fire at most once.
C10_BeforeMountOnce ==
    \A l \in Layouts :
        count[l]["beforeMount"] <= 1 /\ count[l]["beforeMountRoot"] <= 1

\* the cleanup wrappers a destroy activation has called, and the position of
\* one of them among these calls
cleanupsOf(d) == {w \in FrameIds : frames[w].fn = "cleanup" /\ frames[w].parent = d}
rankIn(d, w) == Cardinality({v \in cleanupsOf(d) : v <= w})
destroysOf(l) == {d \in FrameIds : frames[d].fn = "destroy" /\ frames[d].self = l}

completes(d) == frames[d].status # "done" /\ frames'[d].status = "done"
\* cleanups of l that a destroy activation has taken and not yet called
takenPending(l) == \E e \in destroysOf(l) : frames'[e].q # <<>>

unshared(d) ==
    /\ frames[d].solo
    /\ \A f \in FrameIds :
          (f > d /\ frames[f].self = frames[d].self) =>
              frames[f].fn \notin {"mountTo", "destroy"}

setSlotsOn(n) == {f \in FrameIds : frames[f].fn = "setSlot" /\ frames[f].arg.name = n}
flushes == {f \in FrameIds : frames[f].fn = "flush"}
inRegion(n, c) == \E i \in 1..Len(region[n]) : region[n][i] = c
\* the flush started by onRootCreated has completed
firstFlushDone == flushes # {} /\ \A f \in flushes : (\A g \in flushes : f <= g) => settled(f)

\* C13: for a name that received several values before its placeholder was
\* discovered at root creation, no earlier queued value is ever in the slot
\* region, and once the flush has completed (no setSlot having been called on
\* the name since) the region holds exactly the last queued value.
C13_OnlyLastQueuedShown ==
    \A n \in slotMap :
        Len(submitted[n]) >= 2 =>
            /\ \A i \in 1..(Len(submitted[n]) - 1) : ~inRegion(n, submitted[n][i])
            /\ (firstFlushDone /\ \A f \in setSlotsOn(n) : frames[f].note => frames[f].parent # 0)
                   => region[n] = <<submitted[n][Len(submitted[n])]>>

\* C14: once every setSlot call on a discovered slot has settled, the region
\* holds only the content of the most recent of these calls.
C14_LastCallWins ==
    \A n \in slotMap :
        LET called == {f \in setSlotsOn(n) : frames[f].note}
        IN (called # {} /\ \A f \in setSlotsOn(n) \cup flushes : settled(f)) =>
               \E f \in called :
                   /\ \A g \in called : g <= f
                   /\ region[n] = <<frames[f].arg.content>>

\* C15: when a setSlot call that replaced a mounted component has completed,
\* that component is neither mounted nor owned by the host's children plugin.
C15_ReplacedComponentReleased ==
    \A f \in FrameIds :
        (frames[f].fn = "setSlot" /\ frames[f].status = "done") =>
            \A c \in frames[f].snap : ~mounted[c] /\ ~setHas(children, c)

\* C16: while no flush is running, the pending queue of every undiscovered
\* slot name holds exactly the contents submitted for it, in submission order.
C16_PendingKeepsOrder ==
    \A n \in SlotNames \ slotMap :
        ~flushing => itemsOf(slotPending, n) = submitted[n]

\* ---- root construction failures --------------------------------------------
\* the three failures of ensureRoot, read off the instance's configuration
thenableHook == hasFeature("P", "thenable")
badHtml == ~thenableHook /\ renders \in {"html0", "html2"}
notAnElement ==
    /\ ~thenableHook
    /\ \/ renders = "text"
       \/ renders = "layout" /\ ~hasFeature("P", "children")
constructionFails == thenableHook \/ badHtml \/ notAnElement

\* C17: when root construction fails (a thenable from an after-render hook, an
\* html string without exactly one top-level element, a final value that is
\* not an element), getElement() throws synchronously and mountTo() rejects,
\* the root stays unset, no root-created broadcast is sent, the root is not
\* appended to a container and the component is not marked mounted.
C17_FailedRootLeavesNothing ==
    /\ [](constructionFails =>
            /\ root["P"] = 0
            /\ count["P"]["onRootCreated"] = 0
            /\ parentNode["P"] = "none" /\ attached["P"] = 0
            /\ ~mounted["P"]
            /\ \A f \in FrameIds :
                   frames[f].fn = "mountTo" /\ frames[f].self = "P"
                       => \/ frames[f].status = "rejected"
                          \/ frames[f].status = "running" /\ frames[f].pc = "m174")
    /\ [][constructionFails /\ CallGetElement
              => count'["P"]["threw"] = count["P"]["threw"] + 1]_vars

C17_Witness ==
    /\ badHtml /\ renders = "html2"
    /\ count["P"]["threw"] >= 1
    /\ count["P"]["render"] >= 2
    /\ \E f \in FrameIds :
           frames[f].fn = "mountTo" /\ frames[f].self = "P" /\ frames[f].status = "rejected"

\* render returns a component and every after-render hook is synchronous
returnsLayout == renders = "layout" /\ ~thenableHook

registryOf(op) == IF op = "attachFeature" THEN store ELSE coreFeatures
keysOf(bucket) == {bucket[i].key : i \in 1..Len(bucket)}
featureAt(bucket, key) == bucket[CHOOSE i \in 1..Len(bucket) : bucket[i].key = key].feature

\* C19: attaching a feature under a name already present in the host's
\* registry throws, leaves the registry (and its first feature) unchanged and
\* does not invoke onInit of the rejected feature; no registration call
\* changes the registry of another host.
C19_DuplicateNameRejected ==
    [][attaches' # attaches =>
        LET o == regOutcome'
            before == registryOf(o.op)
            after == IF o.op = "attachFeature" THEN store' ELSE coreFeatures'
        IN /\ \A h \in Hosts \ {o.host} : after[h] = before[h]
           /\ IF o.key \in keysOf(before[o.host])
              THEN /\ o.status = "throw"
                   /\ after = before
                   /\ onInits' = onInits
              ELSE o.status = "ok"]_vars

C19_Witness ==
    /\ regOutcome.op = "attachFeature" /\ regOutcome.status = "throw"
    /\ regOutcome.key \in keysOf(store[regOutcome.host])
    /\ featureAt(store[regOutcome.host], regOutcome.key) # regOutcome.feature
    /\ onInits[regOutcome.host][regOutcome.feature] = 0
    /\ \E h \in Hosts \ {regOutcome.host} : regOutcome.key \in keysOf(store[h])

(***************************************************************************)
(* Missing names (checked under PlanSpec).                                 *)
(***************************************************************************)
\* neither an override name nor a canonical featureName
nameless(spec) == spec.name = Undef /\ featureName[spec.feature] = Undef
visitedSpecs == planResult.visited

\* C20: whenever a specification buildFeaturePlan visits, top-level or
\* reached as a dependency, has neither an override name nor a canonical
\* featureName, buildFeaturePlan throws the configuration error and returns
\* no plan.
C20_NamelessSpecThrows ==
    (planResult.status # "none"
        /\ \E i \in 1..Len(visitedSpecs) : nameless(visitedSpecs[i]))
    => planResult.status = "throw" /\ planResult.plan = <<>>

\* a named top-level specification whose dependency is nameless
C20_Witness ==
    /\ planResult.status = "throw"
    /\ Len(specs) = 2 /\ ~nameless(specs[1]) /\ ~nameless(specs[2])
    /\ Len(visitedSpecs) >= 3
    /\ nameless(visitedSpecs[Len(visitedSpecs)])
    /\ \A i \in 1..(Len(visitedSpecs) - 1) : ~missingName(resolveName(visitedSpecs[i]))

(***************************************************************************)
(* ChildrenFeature.detach (checked under Spec).                            *)
(***************************************************************************)
\* the destroy() activations a given activation called
destroysCalledBy(t) ==
    {g \in FrameIds : frames[g].fn = "destroy" /\ frames[g].parent = t}
\* the detach activations that found their child in the owned set
owningDetaches ==
    {t \in FrameIds : frames[t].fn = "detach" /\ destroysCalledBy(t) # {}}
\* the destroy() activations the onDestroy hook of the parent's destroy d called
cascadeOf(d) ==
    {g \in FrameIds :
        /\ frames[g].fn = "destroy" /\ frames[g].parent # 0
        /\ frames[frames[g].parent].fn = "onDestroy"
        /\ frames[frames[g].parent].parent = d}

\* C21: detach(child) on a child that is not owned leaves the owned set
\* unchanged and invokes no destroy(); detach on an owned child removes it
\* from the set and invokes its destroy() exactly once, and a destroy() of the
\* parent called later does not destroy that child again.
C21_DetachOnlyOwned ==
    /\ [][Detach =>
            LET c == F.arg
                t == cur
            IN IF c \notin setOf(children)
               THEN /\ children' = children
                    /\ Len(frames') = Len(frames)
                    /\ count' = count
               ELSE /\ setOf(children') = setOf(children) \ {c}
                    /\ Len(frames') = Len(frames) + 1
                    /\ frames'[Len(frames')].fn = "destroy"
                    /\ frames'[Len(frames')].self = c
                    /\ frames'[Len(frames')].parent = t]_vars
    /\ [](\A t \in FrameIds :
            frames[t].fn = "detach" =>
                /\ Cardinality(destroysCalledBy(t)) <= 1
                /\ \A g \in destroysCalledBy(t) : frames[g].self = frames[t].arg
                /\ t \in owningDetaches =>
                     \A d \in destroysOf("P") :
                        d > t => \A g \in cascadeOf(d) : frames[g].self # frames[t].arg)

C21_Witness ==
    \E t \in owningDetaches, d \in destroysOf("P") :
        /\ d > t /\ frames[d].live /\ frames[d].status = "done"
        /\ frames[t].status = "done"
        /\ \E h \in FrameIds :
              frames[h].fn = "onDestroy" /\ frames[h].parent = d /\ frames[h].status = "done"
        /\ count[frames[t].arg]["destroy"] = 1

(***************************************************************************)
(* Inherited specifications (checked under ChainSpec).                     *)
(***************************************************************************)
\* a class and its ancestors
RECURSIVE chainOf(_)
chainOf(c) == IF c = 0 THEN {} ELSE {c} \cup chainOf(classes[c].parent)
elementsOf(list) == {list[i] : i \in 1..Len(list)}
\* every specification declared on a class of the chain of c
declaredInChain(c) == UNION {elementsOf(classes[a].declared) : a \in chainOf(c)}
planNames == {planResult.plan[i].name : i \in 1..Len(planResult.plan)}

\* C22: the list collected for a class contains every specification declared
\* on the class and on each ancestor; withFeatures(Base, ...specs) keeps
\* every specification collected for Base; and the plan built from the
\* collected list has an entry for every name requested in the class chain.
C22_InheritedSpecsCollected ==
    /\ \A c \in 1..Len(classes) :
          /\ declaredInChain(c) \subseteq elementsOf(collectFeatureSpecs(c))
          /\ classes[c].via = "withFeatures" =>
                elementsOf(collectFeatureSpecs(classes[c].parent))
                    \subseteq elementsOf(collectFeatureSpecs(c))
    /\ collected.cls # 0 =>
          /\ declaredInChain(collected.cls) \subseteq elementsOf(collected.list)
          /\ planResult.status = "ok" =>
                \A sp \in declaredInChain(collected.cls) : resolveName(sp) \in planNames

C22_Witness ==
    /\ collected.cls # 0
    /\ classes[collected.cls].via = "withFeatures"
    /\ classes[collected.cls].declared # <<>>
    /\ \E a \in chainOf(collected.cls) :
          /\ classes[a].via = "UseFeatures" /\ classes[a].declared # <<>>
          /\ classes[a].declared # classes[collected.cls].declared
    /\ planResult.status = "ok"
    /\ Cardinality(planNames) >= 2

(***************************************************************************)
(* Effects (checked under ReactSpec).                                      *)
(***************************************************************************)
subscribedTo(e) == {s \in Signals : setHas(subscribers[s], e)}

\* C23: once the disposer of an effect has been called, no signal write runs
\* its fn again, not even a write whose notification was in progress when
\* the disposer was called, and the effect is subscribed to no signal.
C23_DisposedEffectStaysSilent ==
    \A e \in disposed : lateRuns[e] = 0 /\ subscribedTo(e) = {}

(***************************************************************************)
(* Navigation (checked under RouterSpec).                                  *)
(***************************************************************************)
NavIds == 1..Len(navs)
\* the first guard of navigation i that returned false, 0 when none did
firstRefusal(i) ==
    IF \E k \in 1..Len(navs[i].verdicts) : ~navs[i].verdicts[k]
    THEN CHOOSE k \in 1..Len(navs[i].verdicts) :
            ~navs[i].verdicts[k] /\ \A j \in 1..(k - 1) : navs[i].verdicts[j]
    ELSE 0
pagesOf(i) == {p \in 1..Len(pages) : pages[p].nav = i}
\* match.opts.middlewares ?? [] of the route a navigation matched
middlewaresOf(i) == IF match(navs[i].to) THEN routeMiddlewares[navs[i].to] ELSE <<>>

C25_StaleNavigationDoesNotMount ==
    /\ [][(NavigateLoaded /\ navs[N].myToken # navToken) =>
            /\ pages' = pages
            /\ navs'[N].page = 0
            /\ navs'[N].status = "stale"
            /\ currentPage' = currentPage]_vars
    /\ [][NavigateLoaded =>
            \A p \in 1..Len(pages') :
                p > Len(pages) => pages'[p].nav = N /\ navs[N].myToken = navToken]_vars
    /\ [](\A i \in NavIds : navs[i].status = "stale" => navs[i].page = 0 /\ pagesOf(i) = {})

C25_Witness ==
    \E i, j \in NavIds :
        /\ i < j
        /\ navs[i].status = "stale" /\ navs[i].myToken # 0
        /\ navs[j].myToken > navs[i].myToken
        /\ navs[j].status = "done" /\ currentPage \in pagesOf(j)

\* no navigate() call is in flight
betweenNavigations == \A i \in NavIds : navs[i].pc = "end"

\* C35: between navigations at most one title effect is subscribed, and it
\* is the current page's: the effect of a page that was replaced or
\* destroyed, also by the built-in error view, has been disposed.
C35_OneTitleEffectOfCurrentPage ==
    betweenNavigations =>
        /\ Cardinality(titleEffects) <= 1
        /\ \A p \in titleEffects : p = currentPage

\* the pages whose mountTo() was started
mountStarted == {p \in 1..Len(pages) : pages[p].mounts > 0}

\* C38: for any interleaving of navigate() calls, overlapping ones and ones
\* whose page throws while mounting included, once all have settled the
\* container holds the root of the current page and of no other page (of
\* no page when the built-in error view replaced it), and every other page
\* whose mountTo was started has been destroyed.
C38_OnePageAfterNavigationsSettle ==
    betweenNavigations =>
        /\ inContainer = (IF currentPage = 0 THEN {} ELSE {currentPage})
        /\ \A p \in mountStarted \ {currentPage} : pages[p].destroys > 0

\* C37: a cleanup callback that an on-mounted, after-mounted, on-destroy or
\* after-destroy hook delivers through a promise is registered and invoked
\* at destroy exactly like one returned synchronously: once destroy() has
\* completed, every callback delivered either way has been invoked once.
C37_AsyncCleanupRegistered ==
    cleanupPc = "destroyed" =>
        \A h \in CleanupHooks :
            hookReturns[h] \in {"function", "promise"} => ranCleanups[h] = 1

(***************************************************************************)
(* Ownership of children across every call order (checked under Spec).    *)
(***************************************************************************)
\* C26: whatever the order of attach, register, detach, mountTo and destroy
\* calls on the parent, also for a parent never mounted or destroyed while
\* unmounted, once a destroy() of the parent has completed every child it
\* owned through attach or register and that was not detached has had its
\* destroy() invoked exactly once.
C26_ChildrenDestroyedInEveryOrder ==
    \A d \in destroysOf("P") :
        frames[d].status = "done"
        => \A c \in frames[d].snap \ detached :
              addedBy[c] \in {"attach", "register"} => count[c]["destroy"] = 1

\* the attach(c, host) activations, and: no activation is pending
attachesOf(c) == {a \in FrameIds : frames[a].fn = "attach" /\ frames[a].arg = c}
allCallsSettled == stack = <<>> /\ mq = <<>> /\ \A f \in FrameIds : settled(f)

\* C36: a child whose attach() was in flight (called, the child not yet
\* added to the owned set) when destroy() of the mounted parent was called is
\* not leaked: once every call has settled, the child is not left mounted
\* and never destroyed under the destroyed parent.
C36_InFlightAttachNotLeaked ==
    allCallsSettled =>
        \A c \in Kids : \A a \in attachesOf(c) : \A d \in destroysOf("P") :
            (/\ a < d
             /\ frames[d].live
             /\ c \notin frames[d].snap
             /\ c \notin detached
             /\ ~mounted["P"])
            => ~(mounted[c] /\ count[c]["destroy"] = 0)

\* ---- Phases of destroy() on a mounted component (checked under Spec) --------
\* the positions of a destroy activation after the onDestroy broadcast of
\* lines 216-219, and those after the first flush of line 222
pastOnDestroy == {"d222", "d222a", "d224", "d233", "d233a", "d235", "d241"}
pastFirstFlush == {"d224", "d233", "d233a", "d235", "d241"}
\* the wrappers a destroy activation has called for cleanups of one origin
wrappersOf(d, label) == {w \in cleanupsOf(d) : frames[w].arg.label = label}

\* C27: a destroy() of a mounted component goes through its phases in order,
\* each completing before the next starts: once it is past the onDestroy
\* broadcast every onDestroy hook it invoked has completed; the cleanups
\* returned by onDestroy hooks run in the first flush (none is left for later,
\* all are done when the root is detached) and those returned by afterDestroy
\* hooks run only in the second one.
C27_DestroyPhasesInOrder ==
    \A d \in FrameIds :
        (frames[d].fn = "destroy" /\ frames[d].live /\ frames[d].solo)
        => /\ (frames[d].pc \in pastOnDestroy \/ frames[d].status = "done")
                => \A f \in FrameIds :
                      (frames[f].fn = "onDestroy" /\ frames[f].parent = d) => settled(f)
           /\ frames[d].pc \in {"d222", "d222a"} => wrappersOf(d, "cad") = {}
           /\ frames[d].pc \in pastFirstFlush
                => \A w \in wrappersOf(d, "cd") : frames[w].status = "done"

\* ---- Composition: the child returned by renderStructure (checked under Spec) --
\* the mountTo activations of the composed child that the children feature
\* called (ChildrenFeature.onMounted line 67, onDestroy line 79)
pluginMounts ==
    {f \in FrameIds : /\ frames[f].fn = "mountTo" /\ frames[f].self = ComposedChild
                      /\ frames[f].parent # 0
                      /\ frames[frames[f].parent].fn \in {"onMounted", "onDestroy"}}

\* C28: for a parent with the children feature whose renderStructure returns a
\* child component, when a mountTo() of the parent has resolved (and nothing
\* has destroyed or detached since) the child is mounted in the placeholder
\* host, and the feature has invoked the child's mountTo exactly once, however
\* many times the parent is mounted or destroyed.
C28_ComposedChildMountedWithParent ==
    (hasFeature("P", "children") /\ renders = "layout")
    => /\ Cardinality(pluginMounts) <= 1
       /\ \A m \in FrameIds :
             (frames[m].fn = "mountTo" /\ frames[m].self = "P" /\ frames[m].status = "done")
             => /\ Cardinality(pluginMounts) = 1
                /\ (count["P"]["destroy"] = 0 /\ detached = {})
                     => mounted[ComposedChild] /\ parentNode[ComposedChild] = "host"

\* ---- The afterRender chain of root construction (checked under HostSpec) ----
\* the positions in the bucket of the features that have an afterRender hook
hooked == {i \in 1..Len(installed) : hasAfterRender(installed[i])}
\* the loop ended on the throw of line 287
stopped ==
    rootBuild.called # <<>> /\ isThenable(rootBuild.called[Len(rootBuild.called)].out)

\* C29: root construction calls the afterRender hooks in installation order
\* (none passed over up to the point of a throw), the first with the render
\* output and each later one with the value the previous returned; features
\* without the hook are skipped and leave the value unchanged; the last
\* returned value is the candidate the root is made of.
C29_AfterRenderChainInOrder ==
    rootBuild.status # "none" =>
        LET c == rootBuild.called
            n == Len(c)
        IN /\ \A k \in 1..(n - 1) : c[k].at < c[k + 1].at
           /\ \A k \in 1..n : c[k].at \in hooked
           /\ \A i \in hooked : (~stopped \/ i <= c[n].at) => \E k \in 1..n : c[k].at = i
           /\ n > 0 => c[1].arg = rendered
           /\ \A k \in 1..(n - 1) : c[k + 1].arg = c[k].out
           /\ rootBuild.candidate = IF n = 0 THEN rendered ELSE c[n].out
           /\ rootBuild.status = "root" => rootBuild.root = parseHtml(rootBuild.candidate)

\* the children feature replaced the returned Layout by the host, a feature
\* without the hook followed, and the probe after it received the host
C29_Witness ==
    /\ rootBuild.status = "root"
    /\ installed = <<"children", "slots", "probe">>
    /\ rendered = "layout"
    /\ Len(rootBuild.called) = 2
    /\ rootBuild.called[2] = [at |-> 3, arg |-> "host", out |-> "host"]
    /\ rootBuild.root = "host"

\* ---- The deferred features-ready broadcast (checked under HostSpec) ---------
\* C30: when destroy() is called on a component before its deferred
\* features-ready broadcast has fired, no feature of the component receives
\* onFeaturesReady afterwards.
C30_NoReadyAfterDestroy == lateReady = 0

\* ---- The features-ready broadcast and construction (checked under CtorSpec) --
\* C31: the features-ready broadcast is delivered only after construction:
\* when a feature has received it, the constructor's synchronous code has
\* ended, the created hook has returned and every installed feature has had
\* its onInit; and each installed feature receives it at most once.
C31_ReadyOnceAfterConstruction ==
    /\ \A n \in FeatureKeys : readyGot[n] <= 1
    /\ (\E n \in FeatureKeys : readyGot[n] > 0)
         => /\ ctorPc \in {"done", "threw"}
            /\ createdCalls = 1
            /\ \A i \in 1..Len(hostBucket) : initCalls[hostBucket[i]] = 1

\* ---- setState (checked under StateSpec) ------------------------------------
\* the hooks of the last setState call that ran under a given name
ranAs(hook) == SelectSeq(lastUpdate.ran, LAMBDA e : e.hook = hook)
\* the bag the claim expects after the merge
expectedBag ==
    [k \in StateKeys |-> IF lastUpdate.partial[k] # NoValue THEN lastUpdate.partial[k]
                         ELSE lastUpdate.before[k]]

\* C32: setState(partial) broadcasts beforeUpdate and then onStateChanged to
\* every feature while the state bag holds the old values, then merges partial
\* into the bag (keys absent from partial keep their values), then calls the
\* subclass update hook, then broadcasts afterUpdate; mounted or not.
C32_SetStateOrder ==
    setCalls > 0 =>
        LET r == lastUpdate.ran
            n == stPlugins
        IN /\ Len(r) = 3 * n + 1
           /\ \A i \in 1..n :
                 /\ r[i] = [hook |-> "beforeUpdate", at |-> i, saw |-> lastUpdate.before]
                 /\ r[n + i] = [hook |-> "onStateChanged", at |-> i, saw |-> lastUpdate.before]
                 /\ r[2 * n + 1 + i] = [hook |-> "afterUpdate", at |-> i, saw |-> expectedBag]
           /\ r[2 * n + 1] = [hook |-> "update", at |-> 0, saw |-> expectedBag]
           /\ state = expectedBag

\* a mounted component with two features merged a partial with one key into
\* a bag that already held the other key
C32_Witness ==
    /\ setCalls = 2 /\ stMounted /\ stPlugins = 2
    /\ lastUpdate.partial = [x |-> 2, y |-> NoValue]
    /\ lastUpdate.before = [x |-> 1, y |-> 1]
    /\ state = [x |-> 2, y |-> 1]
    /\ Len(ranAs("afterUpdate")) = 2

\* ---- Re-entrant flushes of the slots feature (checked under SlotSpec) -------
\* the flushes that are past the guard of line 204 and not finished
replaying == {f \in flushes : frames[f].pc \in {"f210", "f219"} /\ ~settled(f)}
\* the setSlot calls a flush made for the i-th content queued for name n
replaysOf(n, i) ==
    {f \in setSlotsOn(n) : /\ frames[f].parent \in flushes
                           /\ frames[f].arg.content = submitted[n][i]}
\* the flush started by onRootCreated
firstFlush == CHOOSE f \in flushes : \A g \in flushes : f <= g

\* C33: at most one flush replays queued content at any time; a flush started
\* while another is in progress returns without reading or changing the
\* pending queues; and every item queued before root creation for a slot
\* discovered at root creation is replayed at most once, by the flush that
\* onRootCreated started, and exactly once when that flush has completed.
C33_OneFlushAtATime ==
    /\ [](/\ Cardinality(replaying) <= 1
          /\ \A n \in slotMap : \A i \in 1..Len(submitted[n]) :
                /\ \A f \in replaysOf(n, i) : frames[f].parent = firstFlush
                /\ Cardinality(replaysOf(n, i)) <= 1
                /\ firstFlushDone => Cardinality(replaysOf(n, i)) = 1)
    /\ [][(stack # <<>> /\ F.fn = "flush" /\ F.pc = "f204" /\ flushing)
            => /\ slotPending' = slotPending
               /\ flushing' = flushing
               /\ region' = region
               /\ frames'[cur] = [frames[cur] EXCEPT !.status = "done"]]_vars

\* a flush was started (by onMounted) while the flush of onRootCreated was
\* still awaiting a replayed setSlot, and returned at the guard; the first
\* flush went on to replay both queued items
C33_Witness ==
    /\ Len(submitted["header"]) = 2
    /\ Cardinality(flushes) >= 2
    /\ firstFlushDone
    /\ \E g \in flushes : g # firstFlush /\ frames[g].pc = "f204" /\ settled(g)
                          /\ \E s \in setSlotsOn("header") :
                                frames[s].parent = firstFlush /\ s < g /\ g < Len(frames)
    /\ \A i \in 1..2 : Cardinality(replaysOf("header", i)) = 1

\* ---- DisposableScope.flush (checked under ScopeSpec) ------------------------
idsOf(log) == [i \in 1..Len(log) |-> log[i].id]
\* flush activation f of the scope settles in this step as status s
scopeFlushEnds(f, s) ==
    /\ f \in 1..Len(sFlush') /\ sFlush'[f].status = s
    /\ (f > Len(sFlush) \/ sFlush[f].status = "awaiting")
\* what every flush of the scope keeps: no disposer is invoked twice, the
\* invocations follow the order of the add calls, what is not yet invoked is
\* still in the array, and a flush invokes its next disposer only when the
\* one it awaited has settled
scopeDiscipline ==
    /\ \A i, j \in 1..Len(sLog) : sLog[i].id = sLog[j].id => i = j
    /\ idsOf(sLog) \o disposers = addOrder
    /\ \A i, j \in 1..Len(sLog) : (i < j /\ sLog[i].flush = sLog[j].flush) => sLog[i].settled
\* a flush() called on an empty scope invokes nothing
emptyFlushInvokesNothing ==
    [][(Len(sFlush') > Len(sFlush) /\ disposers = <<>>) => sLog' = sLog]_vars

callsOf(log) == [i \in 1..Len(log) |-> <<log[i].id, log[i].flush>>]
allSettled ==
    /\ \A f \in 1..Len(sFlush) : sFlush[f].status \in {"done", "rejected"}
    /\ \A f \in 1..Len(hFlush) : hFlush[f].status \in {"done", "rejected"}

\* C40: given the same registrations and the same flushes, once every flush
\* has settled the cleanup list of Layout and the DisposableScope have invoked
\* the same cleanups in the same order within the same flush, and the same
\* cleanups are left pending in both.
C40_CleanupListMatchesScope ==
    allSettled =>
        /\ callsOf(hLog) = callsOf(sLog)
        /\ {hostCleanups[i] : i \in 1..Len(hostCleanups)} = {disposers[i] : i \in 1..Len(disposers)}
====
